---- MODULE Spec2Model ----
(***************************************************************************)
(* A model of ngraph.leiden: the graph adapter, the mutable partition, the *)
(* quality functions, the multi-level Louvain/Leiden driver and the        *)
(* edge-scan evaluator.                                                    *)
(*                                                                         *)
(* Conventions.                                                            *)
(*  - A JavaScript array is a sequence; index i of the code is element     *)
(*    i+1 of the sequence (Get/Put below).  Reading outside a typed array  *)
(*    yields Undefined, writing outside it is dropped, as in JavaScript.   *)
(*  - Weights and sizes are integers.  A modularity gain or value is kept  *)
(*    multiplied by totalWeight^2, a CPM gain by ResolutionDen and a CPM   *)
(*    value by 2*ResolutionDen, so that every number stays an integer and  *)
(*    comparisons are the comparisons of the code.  NaN is tracked by a    *)
(*    separate flag where the code can produce it.                         *)
(*  - The seeded random source (ngraph.random) is an arbitrary stream:     *)
(*    every value it can return is a nondeterministic choice.              *)
(***************************************************************************)
EXTENDS Integers, Sequences, FiniteSets, TLC

(***************************************************************************)
(* JavaScript values                                                       *)
(***************************************************************************)
\* Number.POSITIVE_INFINITY as the default of maxCommunitySize.
Infinity == 1000000

\* `undefined` where a community id or a number is expected: a value no
\* index, id, weight or aggregate of the model takes.
Undefined == 0 - Infinity

Get(a, i) == IF i >= 0 /\ i < Len(a) THEN a[i + 1] ELSE Undefined

Put(a, i, x) == IF i >= 0 /\ i < Len(a) THEN [a EXCEPT ![i + 1] = x] ELSE a

\* a[i] += d on a typed array
Add(a, i, d) == IF i >= 0 /\ i < Len(a) THEN [a EXCEPT ![i + 1] = @ + d] ELSE a

Zeros(n) == [i \in 1..n |-> 0]

\* new Float64Array(to).set(a)
growFloat(a, to) == [i \in 1..to |-> IF i <= Len(a) THEN a[i] ELSE 0]

\* x || 0 for a number read from an array
OrZero(x) == IF x = Undefined THEN 0 ELSE x

\* ToInt32 of a value stored into an Int32Array
ToInt32(x) == IF x = Undefined THEN 0 ELSE x

RECURSIVE SumSeq(_)
SumSeq(s) == IF s = << >> THEN 0 ELSE Head(s) + SumSeq(Tail(s))

(***************************************************************************)
(* Graph adapter (makeGraphAdapter)                                        *)
(*                                                                         *)
(* An ngraph.graph instance is [nodeIds, nodeSize, links]: the node ids in *)
(* insertion order, data.size of each node, and the links in insertion     *)
(* order as records [fromId, toId, weight].                                *)
(***************************************************************************)
\* idToIndex.get(id)
idToIndex(graph, id) ==
  IF \E k \in 1..Len(graph.nodeIds) : graph.nodeIds[k] = id
  THEN (CHOOSE k \in 1..Len(graph.nodeIds) : graph.nodeIds[k] = id) - 1
  ELSE Undefined

\* opts.linkWeight applied to a link: the default reads data.weight (1 when
\* it is not a number); "data.w" is l => Math.max(0, l.data?.w ?? 0);
\* "one" is () => 1
linkWeight(kind, l) ==
  IF kind = "data.w"
  THEN IF "w" \in DOMAIN l THEN (IF l.w > 0 THEN l.w ELSE 0) ELSE 0
  ELSE IF kind = "one" THEN 1
  ELSE IF "weight" \in DOMAIN l THEN l.weight ELSE 1

\* the links of graph as the adapter built with { linkWeight } reads them
ReadLinks(graph, kind) ==
  [graph EXCEPT !.links =
     [k \in 1..Len(graph.links) |->
        [fromId |-> graph.links[k].fromId, toId |-> graph.links[k].toId,
         weight |-> linkWeight(kind, graph.links[k])]]]

EmptyAdapter(graph, directed) ==
  LET n == Len(graph.nodeIds) IN
  [ n |-> n, nodeIds |-> graph.nodeIds, size |-> graph.nodeSize,
    selfLoop |-> Zeros(n), strengthOut |-> Zeros(n), strengthIn |-> Zeros(n),
    outEdges |-> [i \in 1..n |-> << >>], inEdges |-> [i \in 1..n |-> << >>],
    directed |-> directed, totalWeight |-> 0 ]

\* graph.forEachLink body of the directed branch
DirectedLink(a, graph, l) ==
  LET from == idToIndex(graph, l.fromId)
      to == idToIndex(graph, l.toId)
      w == l.weight
  IN [a EXCEPT
        !.selfLoop = IF from = to THEN Add(@, from, w) ELSE @,
        !.outEdges = [@ EXCEPT ![from + 1] = Append(@, [to |-> to, w |-> w])],
        !.inEdges = [@ EXCEPT ![to + 1] = Append(@, [from |-> from, w |-> w])],
        !.strengthOut = Add(@, from, w),
        !.strengthIn = Add(@, to, w)]

RECURSIVE DirectedLinks(_, _, _)
DirectedLinks(a, graph, k) ==
  IF k > Len(graph.links) THEN a
  ELSE DirectedLinks(DirectedLink(a, graph, graph.links[k]), graph, k + 1)

\* graph.forEachLink body of the undirected branch: st = [selfLoop, pairAgg],
\* pairAgg the Map as the sequence of its entries in insertion order
PairLink(st, graph, l) ==
  LET a == idToIndex(graph, l.fromId)
      b == idToIndex(graph, l.toId)
      w == l.weight
      i == IF a < b THEN a ELSE b
      j == IF a < b THEN b ELSE a
      has == \E k \in 1..Len(st.pairAgg) : st.pairAgg[k].i = i /\ st.pairAgg[k].j = j
      at == CHOOSE k \in 1..Len(st.pairAgg) : st.pairAgg[k].i = i /\ st.pairAgg[k].j = j
      agg == IF has THEN st.pairAgg
             ELSE Append(st.pairAgg, [i |-> i, j |-> j, sum |-> 0, seenAB |-> 0, seenBA |-> 0])
      pos == IF has THEN at ELSE Len(agg)
  IN IF a = b
     THEN [st EXCEPT !.selfLoop = Add(@, a, w)]
     ELSE [st EXCEPT !.pairAgg =
             [agg EXCEPT ![pos] = [@ EXCEPT !.sum = @ + w,
                                            !.seenAB = IF a = i THEN 1 ELSE @,
                                            !.seenBA = IF a = i THEN @ ELSE 1]]]

RECURSIVE PairLinks(_, _, _)
PairLinks(st, graph, k) ==
  IF k > Len(graph.links) THEN st
  ELSE PairLinks(PairLink(st, graph, graph.links[k]), graph, k + 1)

\* the pair emitted with the summed weight, not the average
EmitPairSummed(a, rec) ==
  LET w == rec.sum
      i == rec.i
      j == rec.j
  IN IF w = 0 THEN a
     ELSE [a EXCEPT
        !.outEdges = [@ EXCEPT ![i + 1] = Append(@, [to |-> j, w |-> w]),
                               ![j + 1] = Append(@, [to |-> i, w |-> w])],
        !.inEdges = [@ EXCEPT ![i + 1] = Append(@, [from |-> j, w |-> w]),
                              ![j + 1] = Append(@, [from |-> i, w |-> w])],
        !.strengthOut = Add(Add(@, i, w), j, w),
        !.strengthIn = Add(Add(@, i, w), j, w)]

\* "Emit symmetric edges with averaged weight when both directions present"
EmitPair(a, rec) ==
  LET dirCount == rec.seenAB + rec.seenBA
      w == IF dirCount > 0 THEN rec.sum \div dirCount ELSE 0
      i == rec.i
      j == rec.j
  IN IF w = 0 THEN a
     ELSE [a EXCEPT
        !.outEdges = [@ EXCEPT ![i + 1] = Append(@, [to |-> j, w |-> w]),
                               ![j + 1] = Append(@, [to |-> i, w |-> w])],
        !.inEdges = [@ EXCEPT ![i + 1] = Append(@, [from |-> j, w |-> w]),
                              ![j + 1] = Append(@, [from |-> i, w |-> w])],
        !.strengthOut = Add(Add(@, i, w), j, w),
        !.strengthIn = Add(Add(@, i, w), j, w)]

RECURSIVE EmitPairs(_, _, _)
EmitPairs(a, pairAgg, k) ==
  IF k > Len(pairAgg) THEN a
  ELSE EmitPairs(EmitPair(a, pairAgg[k]), pairAgg, k + 1)

\* "Add self-loops into adjacency and strengths once"
RECURSIVE EmitSelfLoops(_, _)
EmitSelfLoops(a, v) ==
  IF v >= a.n THEN a
  ELSE LET w == Get(a.selfLoop, v)
           b == IF w = 0 THEN a
                ELSE [a EXCEPT
                   !.outEdges = [@ EXCEPT ![v + 1] = Append(@, [to |-> v, w |-> w])],
                   !.inEdges = [@ EXCEPT ![v + 1] = Append(@, [from |-> v, w |-> w])],
                   !.strengthOut = Add(@, v, w),
                   !.strengthIn = Add(@, v, w)]
       IN EmitSelfLoops(b, v + 1)

makeGraphAdapter(graph, directed) ==
  LET e == EmptyAdapter(graph, directed)
      filled ==
        IF directed THEN DirectedLinks(e, graph, 1)
        ELSE LET st == PairLinks([selfLoop |-> e.selfLoop, pairAgg |-> << >>], graph, 1)
             IN EmitSelfLoops(EmitPairs([e EXCEPT !.selfLoop = st.selfLoop], st.pairAgg, 1), 0)
  IN [filled EXCEPT !.totalWeight = SumSeq(filled.strengthOut)]

(***************************************************************************)
(* Mutable partition (makePartition)                                       *)
(*                                                                         *)
(* A partition is a record.  The six community* fields are the closure's   *)
(* `let` variables; `exposed` holds the six arrays that the returned       *)
(* object captured when it was built.  While `aliased` is TRUE they are    *)
(* the same array objects, so every write shows in both; once the closure  *)
(* rebinds its variables (ensureCommCapacity growing, compactCommunityIds) *)
(* the object keeps the arrays it captured.                                *)
(***************************************************************************)
Aggregates(p) ==
  [ communityTotalSize |-> p.communityTotalSize,
    communityNodeCount |-> p.communityNodeCount,
    communityInternalEdgeWeight |-> p.communityInternalEdgeWeight,
    communityTotalStrength |-> p.communityTotalStrength,
    communityTotalOutStrength |-> p.communityTotalOutStrength,
    communityTotalInStrength |-> p.communityTotalInStrength ]

\* the properties of the returned object after a write through the closure
Publish(p) == IF p.aliased THEN [p EXCEPT !.exposed = Aggregates(p)] ELSE p

makePartition(graph) ==
  LET n == graph.n IN
  [ n |-> n,
    nodeCommunity |-> [i \in 1..n |-> i - 1],
    communityCount |-> n,
    communityTotalSize |-> Zeros(n),
    communityNodeCount |-> Zeros(n),
    communityInternalEdgeWeight |-> Zeros(n),
    communityTotalStrength |-> Zeros(n),
    communityTotalOutStrength |-> Zeros(n),
    communityTotalInStrength |-> Zeros(n),
    candidateCommunities |-> Zeros(n),
    candidateCommunityCount |-> 0,
    neighborEdgeWeightToCommunity |-> Zeros(n),
    outEdgeWeightToCommunity |-> Zeros(n),
    inEdgeWeightFromCommunity |-> Zeros(n),
    isCandidateCommunity |-> Zeros(n),
    aliased |-> TRUE,
    exposed |-> [ communityTotalSize |-> Zeros(n),
                  communityNodeCount |-> Zeros(n),
                  communityInternalEdgeWeight |-> Zeros(n),
                  communityTotalStrength |-> Zeros(n),
                  communityTotalOutStrength |-> Zeros(n),
                  communityTotalInStrength |-> Zeros(n) ] ]

\* no growth: a slot appended by a move has no place in the arrays
keepCommCapacity(p, newCount) == p

ensureCommCapacity(p, newCount) ==
  IF newCount <= Len(p.communityTotalSize) THEN p
  ELSE LET half == (Len(p.communityTotalSize) * 3 + 1) \div 2
           growTo == IF newCount > half THEN newCount ELSE half
       IN [p EXCEPT
             !.communityTotalSize = growFloat(@, growTo),
             !.communityNodeCount = growFloat(@, growTo),
             !.communityInternalEdgeWeight = growFloat(@, growTo),
             !.communityTotalStrength = growFloat(@, growTo),
             !.communityTotalOutStrength = growFloat(@, growTo),
             !.communityTotalInStrength = growFloat(@, growTo),
             !.aliased = FALSE]

\* first loop of initializeAggregates: per-node totals and self-loops
RECURSIVE InitNodeTotals(_, _, _)
InitNodeTotals(p, graph, i) ==
  IF i >= p.n THEN p
  ELSE LET c == Get(p.nodeCommunity, i)
           loop == Get(graph.selfLoop, i)
           q == [p EXCEPT
                  !.communityTotalSize = Add(@, c, Get(graph.size, i)),
                  !.communityNodeCount = Add(@, c, 1),
                  !.communityTotalOutStrength =
                      IF graph.directed THEN Add(@, c, Get(graph.strengthOut, i)) ELSE @,
                  !.communityTotalInStrength =
                      IF graph.directed THEN Add(@, c, Get(graph.strengthIn, i)) ELSE @,
                  !.communityTotalStrength =
                      IF graph.directed THEN @ ELSE Add(@, c, Get(graph.strengthOut, i)),
                  !.communityInternalEdgeWeight = IF loop # 0 THEN Add(@, c, loop) ELSE @]
       IN InitNodeTotals(q, graph, i + 1)

\* the edge scan shared by initializeAggregates and compactCommunityIds:
\* adds to internal[] the weight of every out-edge i -> j inside one
\* community; the undirected scan skips j <= i
RECURSIVE ScanInternal(_, _, _, _, _)
ScanInternal(internal, nodeCommunity, graph, i, k) ==
  IF i >= graph.n THEN internal
  ELSE IF k > Len(graph.outEdges[i + 1])
       THEN ScanInternal(internal, nodeCommunity, graph, i + 1, 1)
       ELSE LET e == graph.outEdges[i + 1][k]
                ci == Get(nodeCommunity, i)
                skip == (~graph.directed) /\ e.to <= i
                next == IF (~skip) /\ ci = Get(nodeCommunity, e.to)
                        THEN Add(internal, ci, e.w) ELSE internal
            IN ScanInternal(next, nodeCommunity, graph, i, k + 1)

initializeAggregates(p, graph) ==
  LET z == [p EXCEPT
              !.communityTotalSize = Zeros(Len(@)),
              !.communityNodeCount = Zeros(Len(@)),
              !.communityInternalEdgeWeight = Zeros(Len(@)),
              !.communityTotalStrength = Zeros(Len(@)),
              !.communityTotalOutStrength = Zeros(Len(@)),
              !.communityTotalInStrength = Zeros(Len(@))]
      t == InitNodeTotals(z, graph, 0)
  IN Publish([t EXCEPT !.communityInternalEdgeWeight =
                 ScanInternal(@, t.nodeCommunity, graph, 0, 1)])

RECURSIVE resetScratchFrom(_, _)
resetScratchFrom(p, i) ==
  IF i >= p.candidateCommunityCount THEN [p EXCEPT !.candidateCommunityCount = 0]
  ELSE LET c == Get(p.candidateCommunities, i)
       IN resetScratchFrom(
            [p EXCEPT !.isCandidateCommunity = Put(@, c, 0),
                      !.neighborEdgeWeightToCommunity = Put(@, c, 0),
                      !.outEdgeWeightToCommunity = Put(@, c, 0),
                      !.inEdgeWeightFromCommunity = Put(@, c, 0)], i + 1)

\* resetScratch left out: the scratch buffers keep what the last node put there
keepScratch(p) == p

resetScratch(p) == resetScratchFrom(p, 0)

\* isCandidateCommunity[c] of an id outside the buffer reads undefined (falsy)
\* and the writes to both buffers are dropped, the counter still advances
touch(p, c) ==
  IF Get(p.isCandidateCommunity, c) = 1 THEN p
  ELSE [p EXCEPT !.isCandidateCommunity = Put(@, c, 1),
                 !.candidateCommunities = Put(@, p.candidateCommunityCount, c),
                 !.candidateCommunityCount = @ + 1]

RECURSIVE AccumulateOut(_, _, _, _)
AccumulateOut(p, graph, v, k) ==
  IF k > Len(graph.outEdges[v + 1]) THEN p
  ELSE LET e == graph.outEdges[v + 1][k]
           cj == Get(p.nodeCommunity, e.to)
           t == touch(p, cj)
           q == IF graph.directed
                THEN [t EXCEPT !.outEdgeWeightToCommunity = Add(@, cj, e.w)]
                ELSE [t EXCEPT !.neighborEdgeWeightToCommunity = Add(@, cj, e.w)]
       IN AccumulateOut(q, graph, v, k + 1)

RECURSIVE AccumulateIn(_, _, _, _)
AccumulateIn(p, graph, v, k) ==
  IF k > Len(graph.inEdges[v + 1]) THEN p
  ELSE LET e == graph.inEdges[v + 1][k]
           ci2 == Get(p.nodeCommunity, e.from)
           t == touch(p, ci2)
       IN AccumulateIn([t EXCEPT !.inEdgeWeightFromCommunity = Add(@, ci2, e.w)],
                       graph, v, k + 1)

\* the partition after the call; the value returned is its candidateCommunityCount
accumulateNeighborCommunityEdgeWeights(p, graph, v) ==
  LET r == touch(resetScratch(p), Get(p.nodeCommunity, v))
      o == AccumulateOut(r, graph, v, 1)
  IN IF graph.directed THEN AccumulateIn(o, graph, v, 1) ELSE o

getCandidateCommunityAt(p, i) == Get(p.candidateCommunities, i)

getNeighborEdgeWeightToCommunity(p, c) == OrZero(Get(p.neighborEdgeWeightToCommunity, c))

getOutEdgeWeightToCommunity(p, c) == OrZero(Get(p.outEdgeWeightToCommunity, c))

getInEdgeWeightFromCommunity(p, c) == OrZero(Get(p.inEdgeWeightFromCommunity, c))

getCommunityTotalSize(p, c) ==
  IF c # Undefined /\ c < Len(p.communityTotalSize) THEN Get(p.communityTotalSize, c) ELSE 0


(***************************************************************************)
(* Quality deltas.  A JavaScript number that may be NaN is the record      *)
(* [nan, val].  Modularity deltas are multiplied by totalWeight^2, CPM     *)
(* deltas by ResolutionDen; options.resolution is the numerator of gamma.  *)
(***************************************************************************)
ResolutionDen == 2

Num(x) == [nan |-> FALSE, val |-> x]

NaN == [nan |-> TRUE, val |-> 0]

\* truthiness of a JavaScript number
Truthy(x) == (~x.nan) /\ x.val # 0

\* c < bound in JavaScript, false when c is undefined
Below(c, bound) == c # Undefined /\ c < bound

\* deltaModularityUndirected of the partition (the closure's own arrays)
deltaModularityUndirected(p, graph, v, newC) ==
  LET oldC == Get(p.nodeCommunity, v)
      twoMUndirected == graph.totalWeight
      strengthV == Get(graph.strengthOut, v)
      weightToNew == IF Below(newC, Len(p.neighborEdgeWeightToCommunity))
                     THEN OrZero(Get(p.neighborEdgeWeightToCommunity, newC)) ELSE 0
      weightToOld == OrZero(Get(p.neighborEdgeWeightToCommunity, oldC))
      totalStrengthNew == IF Below(newC, Len(p.communityTotalStrength))
                          THEN Get(p.communityTotalStrength, newC) ELSE 0
      totalStrengthOld == Get(p.communityTotalStrength, oldC)
  IN IF newC = oldC THEN Num(0)
     ELSE IF twoMUndirected = 0 \/ totalStrengthOld = Undefined THEN NaN
     ELSE Num(twoMUndirected * (weightToNew - weightToOld)
              - strengthV * (totalStrengthNew - totalStrengthOld))

deltaModularityDirected(p, graph, v, newC) ==
  LET oldC == Get(p.nodeCommunity, v)
      totalEdgeWeight == graph.totalWeight
      strengthOutV == Get(graph.strengthOut, v)
      strengthInV == Get(graph.strengthIn, v)
      inFromNew == IF Below(newC, Len(p.inEdgeWeightFromCommunity))
                   THEN OrZero(Get(p.inEdgeWeightFromCommunity, newC)) ELSE 0
      outToNew == IF Below(newC, Len(p.outEdgeWeightToCommunity))
                  THEN OrZero(Get(p.outEdgeWeightToCommunity, newC)) ELSE 0
      inFromOld == OrZero(Get(p.inEdgeWeightFromCommunity, oldC))
      outToOld == OrZero(Get(p.outEdgeWeightToCommunity, oldC))
      totalInStrengthNew == IF Below(newC, Len(p.communityTotalInStrength))
                            THEN Get(p.communityTotalInStrength, newC) ELSE 0
      totalOutStrengthNew == IF Below(newC, Len(p.communityTotalOutStrength))
                             THEN Get(p.communityTotalOutStrength, newC) ELSE 0
      totalInStrengthOld == Get(p.communityTotalInStrength, oldC)
      totalOutStrengthOld == Get(p.communityTotalOutStrength, oldC)
  IN IF newC = oldC THEN Num(0)
     ELSE IF totalEdgeWeight = 0 \/ totalInStrengthOld = Undefined
             \/ totalOutStrengthOld = Undefined THEN NaN
     ELSE Num(totalEdgeWeight * (inFromNew + outToNew - inFromOld - outToOld)
              - (strengthOutV * (totalInStrengthNew - totalInStrengthOld)
                 + strengthInV * (totalOutStrengthNew - totalOutStrengthOld)))

deltaCPM(p, graph, v, newC, gamma) ==
  LET oldC == Get(p.nodeCommunity, v)
      weightToOld == OrZero(Get(p.neighborEdgeWeightToCommunity, oldC))
      weightToNew == IF Below(newC, Len(p.neighborEdgeWeightToCommunity))
                     THEN OrZero(Get(p.neighborEdgeWeightToCommunity, newC)) ELSE 0
      nodeSize == IF Get(graph.size, v) = 0 THEN 1 ELSE Get(graph.size, v)
      sizeOld == OrZero(Get(p.communityTotalSize, oldC))
      sizeNew == IF Below(newC, Len(p.communityTotalSize))
                 THEN Get(p.communityTotalSize, newC) ELSE 0
  IN IF newC = oldC THEN Num(0)
     ELSE Num(ResolutionDen * (weightToNew - weightToOld)
              - gamma * nodeSize * (sizeNew - sizeOld + nodeSize))

\* quality/modularity.js: reads the arrays exposed on the partition object
diffModularityDirected(part, g, v, c) ==
  LET oldC == Get(part.nodeCommunity, v)
      m == g.totalWeight
      k_out == Get(g.strengthOut, v)
      k_in == Get(g.strengthIn, v)
      w_new_in == IF Below(c, g.n) THEN getInEdgeWeightFromCommunity(part, c) ELSE 0
      w_new_out == IF Below(c, g.n) THEN getOutEdgeWeightToCommunity(part, c) ELSE 0
      w_old_in == getInEdgeWeightFromCommunity(part, oldC)
      w_old_out == getOutEdgeWeightToCommunity(part, oldC)
      T_new == IF Below(c, Len(part.exposed.communityTotalInStrength))
               THEN Get(part.exposed.communityTotalInStrength, c) ELSE 0
      F_new == IF Below(c, Len(part.exposed.communityTotalOutStrength))
               THEN Get(part.exposed.communityTotalOutStrength, c) ELSE 0
      T_old == Get(part.exposed.communityTotalInStrength, oldC)
      F_old == Get(part.exposed.communityTotalOutStrength, oldC)
  IN IF c = oldC THEN Num(0)
     ELSE IF m = 0 \/ T_old = Undefined \/ F_old = Undefined THEN NaN
     ELSE Num(m * (w_new_in + w_new_out - w_old_in - w_old_out)
              - (k_out * (T_new - T_old) + k_in * (F_new - F_old)))

diffModularity(part, g, v, c) ==
  LET oldC == Get(part.nodeCommunity, v)
      k_v == Get(g.strengthOut, v)
      m2 == g.totalWeight
      k_v_in_new == getNeighborEdgeWeightToCommunity(part, c)
      k_v_in_old == getNeighborEdgeWeightToCommunity(part, oldC)
      wTot_new == IF Below(c, Len(part.exposed.communityTotalStrength))
                  THEN Get(part.exposed.communityTotalStrength, c) ELSE 0
      wTot_old == Get(part.exposed.communityTotalStrength, oldC)
  IN IF g.directed THEN diffModularityDirected(part, g, v, c)
     ELSE IF c = oldC THEN Num(0)
     ELSE IF m2 = 0 \/ wTot_old = Undefined THEN NaN
     ELSE Num(m2 * (k_v_in_new - k_v_in_old) - k_v * (wTot_new - wTot_old))

\* quality/cpm.js
diffCPM(part, g, v, c, gamma) ==
  LET oldC == Get(part.nodeCommunity, v)
      w_old == getNeighborEdgeWeightToCommunity(part, oldC)
      w_new == IF Below(c, g.n) THEN getNeighborEdgeWeightToCommunity(part, c) ELSE 0
      s_v == IF Get(g.size, v) = 0 THEN 1 ELSE Get(g.size, v)
      S_old == OrZero(Get(part.exposed.communityTotalSize, oldC))
      S_new == IF Below(c, Len(part.exposed.communityTotalSize))
               THEN Get(part.exposed.communityTotalSize, c) ELSE 0
  IN IF c = oldC THEN Num(0)
     ELSE Num(ResolutionDen * (w_new - w_old) - gamma * s_v * (S_new - S_old + s_v))

\* a || b || 0
OrElse(a, b) == IF Truthy(a) THEN a.val ELSE IF Truthy(b) THEN b.val ELSE 0

computeQualityGain(partition, graph, v, c, opts) ==
  IF opts.quality = "cpm"
  THEN OrElse(diffCPM(partition, graph, v, c, opts.resolution),
              deltaCPM(partition, graph, v, c, opts.resolution))
  ELSE IF opts.directed
  THEN OrElse(diffModularityDirected(partition, graph, v, c),
              deltaModularityDirected(partition, graph, v, c))
  ELSE OrElse(diffModularity(partition, graph, v, c),
              deltaModularityUndirected(partition, graph, v, c))

(***************************************************************************)
(* moveNodeToCommunity and compactCommunityIds                             *)
(***************************************************************************)
moveNodeToCommunity(p0, graph, v, newC) ==
  LET oldC == Get(p0.nodeCommunity, v)
      p == IF newC # Undefined /\ newC >= p0.communityCount
           THEN [ensureCommCapacity(p0, newC + 1) EXCEPT !.communityCount = newC + 1]
           ELSE p0
      strengthOutV == Get(graph.strengthOut, v)
      strengthInV == Get(graph.strengthIn, v)
      selfLoopWeight == Get(graph.selfLoop, v)
      nodeSize == Get(graph.size, v)
      outToOld == OrZero(Get(p.outEdgeWeightToCommunity, oldC))
      inFromOld == OrZero(Get(p.inEdgeWeightFromCommunity, oldC))
      outToNew == IF Below(newC, Len(p.outEdgeWeightToCommunity))
                  THEN OrZero(Get(p.outEdgeWeightToCommunity, newC)) ELSE 0
      inFromNew == IF Below(newC, Len(p.inEdgeWeightFromCommunity))
                   THEN OrZero(Get(p.inEdgeWeightFromCommunity, newC)) ELSE 0
      weightToOld == OrZero(Get(p.neighborEdgeWeightToCommunity, oldC))
      weightToNew == OrZero(Get(p.neighborEdgeWeightToCommunity, newC))
  IN IF oldC = newC THEN p0
     ELSE Publish([p EXCEPT
       !.communityNodeCount = Add(Add(@, oldC, 0 - 1), newC, 1),
       !.communityTotalSize = Add(Add(@, oldC, 0 - nodeSize), newC, nodeSize),
       !.communityTotalOutStrength =
           IF graph.directed THEN Add(Add(@, oldC, 0 - strengthOutV), newC, strengthOutV) ELSE @,
       !.communityTotalInStrength =
           IF graph.directed THEN Add(Add(@, oldC, 0 - strengthInV), newC, strengthInV) ELSE @,
       !.communityTotalStrength =
           IF graph.directed THEN @ ELSE Add(Add(@, oldC, 0 - strengthOutV), newC, strengthOutV),
       !.communityInternalEdgeWeight =
           IF graph.directed
           THEN Add(Add(@, oldC, 0 - (outToOld + inFromOld + selfLoopWeight)),
                    newC, outToNew + inFromNew + selfLoopWeight)
           ELSE Add(Add(@, oldC, 0 - (2 * weightToOld + selfLoopWeight)),
                    newC, 2 * weightToNew + selfLoopWeight),
       !.nodeCommunity = Put(@, v, ToInt32(newC))])

\* the comparators handed to ids.sort: TRUE when a sorts before b
BySizeThenCount(p, a, b) ==
  LET sa == Get(p.communityTotalSize, a)
      sb == Get(p.communityTotalSize, b)
      na == Get(p.communityNodeCount, a)
      nb == Get(p.communityNodeCount, b)
  IN IF sb # sa THEN sb < sa ELSE IF nb # na THEN nb < na ELSE a < b

\* a comparator under which no id sorts before another
SortsNowhere(p, mode, a, b) == FALSE

\* preserveMap is the Map as a sequence indexed by old id, Undefined = no entry
SortsBefore(p, mode, a, b) ==
  IF mode.keepOldOrder THEN a < b
  ELSE IF mode.preserveMap # << >>
  THEN LET pa == Get(mode.preserveMap, a)
           pb == Get(mode.preserveMap, b)
       IN IF pa # Undefined /\ pb # Undefined /\ pa # pb THEN pa < pb
          ELSE IF pa # Undefined /\ pb = Undefined THEN TRUE
          ELSE IF pb # Undefined /\ pa = Undefined THEN FALSE
          ELSE BySizeThenCount(p, a, b)
  ELSE BySizeThenCount(p, a, b)

\* second loop of compactCommunityIds: per-node totals in the new numbering
RECURSIVE CompactNodeTotals(_, _, _)
CompactNodeTotals(p, graph, i) ==
  IF i >= p.n THEN p
  ELSE LET c == Get(p.nodeCommunity, i)
           q == [p EXCEPT
                  !.communityTotalSize = Add(@, c, Get(graph.size, i)),
                  !.communityNodeCount = Add(@, c, 1),
                  !.communityTotalOutStrength =
                      IF graph.directed THEN Add(@, c, Get(graph.strengthOut, i)) ELSE @,
                  !.communityTotalInStrength =
                      IF graph.directed THEN Add(@, c, Get(graph.strengthIn, i)) ELSE @,
                  !.communityTotalStrength =
                      IF graph.directed THEN @ ELSE Add(@, c, Get(graph.strengthOut, i))]
       IN CompactNodeTotals(q, graph, i + 1)

compactCommunityIds(p, graph, mode) ==
  LET ids == {c \in 0..(p.communityCount - 1) : Get(p.communityNodeCount, c) > 0}
      \* position of c in the sorted ids, -1 (the fill value) for an unused id
      newId == [k \in 1..p.communityCount |->
                  IF (k - 1) \in ids
                  THEN Cardinality({d \in ids : SortsBefore(p, mode, d, k - 1)})
                  ELSE 0 - 1]
      remappedCount == Cardinality(ids)
      renumbered == [i \in 1..p.n |-> ToInt32(Get(newId, Get(p.nodeCommunity, i - 1)))]
      z == [p EXCEPT
              !.nodeCommunity = renumbered,
              !.communityCount = remappedCount,
              !.communityTotalSize = Zeros(remappedCount),
              !.communityNodeCount = Zeros(remappedCount),
              !.communityInternalEdgeWeight = Zeros(remappedCount),
              !.communityTotalStrength = Zeros(remappedCount),
              !.communityTotalOutStrength = Zeros(remappedCount),
              !.communityTotalInStrength = Zeros(remappedCount),
              !.aliased = FALSE]
      t == CompactNodeTotals(z, graph, 0)
  IN [t EXCEPT !.communityInternalEdgeWeight =
         ScanInternal(@, t.nodeCommunity, graph, 0, 1)]


(***************************************************************************)
(* Optimiser (runLouvainUndirectedModularity)                              *)
(***************************************************************************)
DEFAULT_MAX_LEVELS == 50

DEFAULT_MAX_LOCAL_PASSES == 20

\* 1e-12: every gain of the model is an integer multiple of 1/totalWeight^2
\* (or of 1/ResolutionDen), so a gain exceeds 1e-12 exactly when its scaled
\* value exceeds 0
GAIN_EPSILON == 0

\* the iteration with gain >= bestGain: a later candidate of equal gain wins
ConsiderLast(best, partition, graph, v, communityId, opts, skipOwn) ==
  IF skipOwn /\ communityId = Get(partition.nodeCommunity, v) THEN best
  ELSE IF opts.maxCommunitySize < Infinity
          /\ getCommunityTotalSize(partition, communityId) + Get(graph.size, v)
               > opts.maxCommunitySize
  THEN best
  ELSE LET gain == computeQualityGain(partition, graph, v, communityId, opts)
       IN IF gain >= best.gain THEN [gain |-> gain, c |-> communityId] ELSE best

\* one iteration of a candidate loop: the size cap, the gain, the strict
\* comparison; best = [gain, c]
Consider(best, partition, graph, v, communityId, opts, skipOwn) ==
  IF skipOwn /\ communityId = Get(partition.nodeCommunity, v) THEN best
  ELSE IF opts.maxCommunitySize < Infinity
          /\ getCommunityTotalSize(partition, communityId) + Get(graph.size, v)
               > opts.maxCommunitySize
  THEN best
  ELSE LET gain == computeQualityGain(partition, graph, v, communityId, opts)
       IN IF gain > best.gain THEN [gain |-> gain, c |-> communityId] ELSE best

RECURSIVE ConsiderAll(_, _, _, _, _, _, _, _)
ConsiderAll(best, partition, graph, v, cands, k, opts, skipOwn) ==
  IF k > Len(cands) THEN best
  ELSE ConsiderAll(Consider(best, partition, graph, v, cands[k], opts, skipOwn),
                   partition, graph, v, cands, k + 1, opts, skipOwn)

\* Math.min(10, Math.max(1, count))
Tries(count) == IF count < 1 THEN 1 ELSE IF count > 10 THEN 10 ELSE count

\* the values (random() * count) | 0 can take in the trials of one node
Draws(count) == [1..Tries(count) -> 0..(IF count < 1 THEN 0 ELSE count - 1)]

\* the candidate ids of one node in the order the strategy evaluates them;
\* p is the partition after accumulateNeighborCommunityEdgeWeights
Candidates(p, opts, draws) ==
  IF opts.candidateStrategy = "all"
  THEN [k \in 1..p.communityCount |-> k - 1]
  ELSE IF opts.candidateStrategy = "random"
  THEN draws
  ELSE IF opts.candidateStrategy = "random-neighbor"
  THEN [k \in 1..Len(draws) |-> getCandidateCommunityAt(p, draws[k])]
  ELSE [k \in 1..p.candidateCommunityCount |-> getCandidateCommunityAt(p, k - 1)]

\* how many values the random source is asked for at node v
DrawCount(p, opts) ==
  IF opts.candidateStrategy = "random" THEN p.communityCount
  ELSE IF opts.candidateStrategy = "random-neighbor" THEN p.candidateCommunityCount
  ELSE 0

DrawsFor(p, opts) ==
  IF opts.candidateStrategy \in {"random", "random-neighbor"}
  THEN Draws(DrawCount(p, opts)) ELSE {<< >>}

\* the choice made for node v: [gain, c]
BestMove(p, graph, v, opts, draws) ==
  LET stay == [gain |-> 0, c |-> Get(p.nodeCommunity, v)]
      found == ConsiderAll(stay, p, graph, v, Candidates(p, opts, draws), 1, opts,
                           opts.candidateStrategy # "neighbors")
      gainNew == computeQualityGain(p, graph, v, p.communityCount, opts)
  IN IF opts.allowNewCommunity /\ gainNew > found.gain
     THEN [gain |-> gainNew, c |-> p.communityCount] ELSE found

\* the local-move body without the fixed-node test of line 78
LocalMoveNodeUnmasked(partition, graph, v, opts, fixedNodeMask, level, draws) ==
  LET p == accumulateNeighborCommunityEdgeWeights(partition, graph, v)
      best == BestMove(p, graph, v, opts, draws)
  IN IF best.c # Get(p.nodeCommunity, v) /\ best.gain > GAIN_EPSILON
     THEN [partition |-> moveNodeToCommunity(p, graph, v, best.c), moved |-> TRUE]
     ELSE [partition |-> p, moved |-> FALSE]

\* body of the for loop of the local-move phase for node v (lines 76-129):
\* [partition, moved]
LocalMoveNode(partition, graph, v, opts, fixedNodeMask, level, draws) ==
  IF level = 0 /\ v \in fixedNodeMask
  THEN [partition |-> partition, moved |-> FALSE]
  ELSE LET p == accumulateNeighborCommunityEdgeWeights(partition, graph, v)
           best == BestMove(p, graph, v, opts, draws)
       IN IF best.c # Get(p.nodeCommunity, v) /\ best.gain > GAIN_EPSILON
          THEN [partition |-> moveNodeToCommunity(p, graph, v, best.c), moved |-> TRUE]
          ELSE [partition |-> p, moved |-> FALSE]

renumberCommunities(partition, graph, preserveLabels) ==
  IF preserveLabels.kind = "map"
  THEN compactCommunityIds(partition, graph,
                           [keepOldOrder |-> FALSE, preserveMap |-> preserveLabels.map])
  ELSE IF preserveLabels.kind = "true"
  THEN compactCommunityIds(partition, graph, [keepOldOrder |-> TRUE, preserveMap |-> << >>])
  ELSE compactCommunityIds(partition, graph, [keepOldOrder |-> FALSE, preserveMap |-> << >>])

\* the candidate test without the constraint commMacro[c] === macroV
ConsiderAcrossMacro(best, p, graph, v, c, commMacro, macroV, opts) ==
  IF opts.maxCommunitySize < Infinity
     /\ getCommunityTotalSize(p, c) + Get(graph.size, v) > opts.maxCommunitySize
  THEN best
  ELSE LET gain == computeQualityGain(p, graph, v, c, opts)
       IN IF gain > best.gain THEN [gain |-> gain, c |-> c] ELSE best

\* refinement: one candidate of node v, constrained to v's macro community
ConsiderRefine(best, p, graph, v, c, commMacro, macroV, opts) ==
  IF Get(commMacro, c) # macroV THEN best
  ELSE IF opts.maxCommunitySize < Infinity
          /\ getCommunityTotalSize(p, c) + Get(graph.size, v) > opts.maxCommunitySize
  THEN best
  ELSE LET gain == computeQualityGain(p, graph, v, c, opts)
       IN IF gain > best.gain THEN [gain |-> gain, c |-> c] ELSE best

RECURSIVE ConsiderRefineAll(_, _, _, _, _, _, _, _)
ConsiderRefineAll(best, p, graph, v, t, commMacro, macroV, opts) ==
  IF t >= p.candidateCommunityCount THEN best
  ELSE ConsiderRefineAll(
         ConsiderRefine(best, p, graph, v, getCandidateCommunityAt(p, t), commMacro, macroV, opts),
         p, graph, v, t + 1, commMacro, macroV, opts)

\* body of the for loop of refineWithinCoarseCommunities for node v
RefineNode(refined, graph, v, macro, opts, fixedMask0) ==
  IF v \in fixedMask0
  THEN [partition |-> refined, moved |-> FALSE]
  ELSE LET p == accumulateNeighborCommunityEdgeWeights(refined, graph, v)
           \* commMacro[i] = macro[i], never updated afterwards
           best == ConsiderRefineAll([gain |-> 0, c |-> Get(p.nodeCommunity, v)],
                                     p, graph, v, 0, macro, Get(macro, v), opts)
       IN IF best.c # Get(p.nodeCommunity, v) /\ best.gain > GAIN_EPSILON
          THEN [partition |-> moveNodeToCommunity(p, graph, v, best.c), moved |-> TRUE]
          ELSE [partition |-> p, moved |-> FALSE]

\* buildCoarseGraph: the Map acc as the sequence of its entries [cu, cv, w]
AccSet(acc, cu, cv, w) ==
  IF \E k \in 1..Len(acc) : acc[k].cu = cu /\ acc[k].cv = cv
  THEN LET at == CHOOSE k \in 1..Len(acc) : acc[k].cu = cu /\ acc[k].cv = cv
       IN [acc EXCEPT ![at] = [@ EXCEPT !.w = @ + w]]
  ELSE Append(acc, [cu |-> cu, cv |-> cv, w |-> w])

RECURSIVE CoarseAcc(_, _, _, _, _)
CoarseAcc(acc, g, p, i, k) ==
  IF i >= g.n THEN acc
  ELSE IF k > Len(g.outEdges[i + 1]) THEN CoarseAcc(acc, g, p, i + 1, 1)
  ELSE LET e == g.outEdges[i + 1][k]
       IN CoarseAcc(AccSet(acc, Get(p.nodeCommunity, i), Get(p.nodeCommunity, e.to), e.w),
                    g, p, i, k + 1)

\* coarse.addLink(cu, cv, ...) adds a node that is not in the graph yet
RECURSIVE CoarseLinks(_, _, _)
CoarseLinks(coarse, acc, k) ==
  IF k > Len(acc) THEN coarse
  ELSE LET withNode(gr, id) ==
             IF \E x \in 1..Len(gr.nodeIds) : gr.nodeIds[x] = id THEN gr
             ELSE [gr EXCEPT !.nodeIds = Append(@, id), !.nodeSize = Append(@, 1)]
           gr2 == withNode(withNode(coarse, acc[k].cu), acc[k].cv)
       IN CoarseLinks([gr2 EXCEPT !.links =
                         Append(@, [fromId |-> acc[k].cu, toId |-> acc[k].cv,
                                    weight |-> acc[k].w])], acc, k + 1)

buildCoarseGraph(g, p) ==
  LET nodes == [nodeIds |-> [c \in 1..p.communityCount |-> c - 1],
                \* { size: p.communityTotalSize[c] }, read back by the default
                \* nodeSize of the next adapter (1 when it is not a number)
                nodeSize |-> [c \in 1..p.communityCount |->
                                IF Get(p.exposed.communityTotalSize, c - 1) = Undefined THEN 1
                                ELSE Get(p.exposed.communityTotalSize, c - 1)],
                links |-> << >>]
  IN CoarseLinks(nodes, CoarseAcc(<< >>, g, p, 0, 1), 1)


\* the indices of options.fixedNodes in the base adapter (fixedNodeMask)
FixedNodeMask(graph, opts) ==
  {idToIndex(graph, id) : id \in {f \in opts.fixedNodes : idToIndex(graph, f) # Undefined}}

NoPartition == [n |-> 0]

\* a level as it starts: fresh adapter state, singleton partition, first sweep
\* of the local-move loop under way (improved = false, localPasses = 1)
StartLevel(r, graphAdapter, level) ==
  [r EXCEPT !.pc = "localMove",
            !.level = level,
            !.graphAdapter = graphAdapter,
            !.partition = initializeAggregates(makePartition(graphAdapter), graphAdapter),
            !.refined = NoPartition,
            !.visited = {},
            !.improved = FALSE,
            !.localPasses = 1,
            !.passes = 0]

\* the state of a run of runLouvainUndirectedModularity on entering level 0
StartRun(graph, opts) ==
  LET baseGraphAdapter == makeGraphAdapter(graph, opts.directed)
      r == [ pc |-> "localMove", level |-> 0, graphAdapter |-> baseGraphAdapter,
             partition |-> NoPartition, refined |-> NoPartition,
             visited |-> {}, improved |-> FALSE, localPasses |-> 0, passes |-> 0,
             originalToCurrent |-> [i \in 1..baseGraphAdapter.n |-> i - 1],
             originalNodeIds |-> baseGraphAdapter.nodeIds,
             fixedNodeMask |-> FixedNodeMask(graph, opts),
             linkWeight |-> "data.weight",
             levels |-> 0 ]
  IN StartLevel(r, baseGraphAdapter, 0)

Unvisited(r) == {v \in 0..(r.graphAdapter.n - 1) : v \notin r.visited}

\* lines 75-130: the next node of the shuffled order is any node not yet
\* visited in this sweep
LocalMoveVisitStep(r, opts, v, draws) ==
  LET res == LocalMoveNode(r.partition, r.graphAdapter, v, opts, r.fixedNodeMask,
                           r.level, draws)
  IN [r EXCEPT !.partition = res.partition,
               !.improved = @ \/ res.moved,
               !.visited = @ \cup {v}]

\* lines 131 and 71-74: the sweep is over and another one starts
LocalMoveNextPassStep(r) ==
  [r EXCEPT !.improved = FALSE, !.localPasses = @ + 1, !.visited = {}]

LocalMoveContinues(r, opts) == r.improved /\ ~(r.localPasses > opts.maxLocalPasses)

\* lines 135-143: the loop is left; renumber, then enter the refinement
\* (fresh singleton partition, first sweep under way) or go on to line 145
RenumberStep(r, opts) ==
  LET partition == renumberCommunities(r.partition, r.graphAdapter, opts.preserveLabels)
  IN IF opts.refine
     THEN [r EXCEPT !.pc = "refine",
                    !.partition = partition,
                    !.refined = initializeAggregates(makePartition(r.graphAdapter),
                                                     r.graphAdapter),
                    !.visited = {}, !.improved = FALSE, !.passes = 1]
     ELSE [r EXCEPT !.pc = "levelEnd", !.partition = partition, !.visited = {}]

RefineVisitStep(r, opts, v) ==
  LET res == RefineNode(r.refined, r.graphAdapter, v, r.partition.nodeCommunity, opts,
                        IF r.level = 0 THEN r.fixedNodeMask ELSE {})
  IN [r EXCEPT !.refined = res.partition,
               !.improved = @ \/ res.moved,
               !.visited = @ \cup {v}]

\* opts.maxLocalPasses || DEFAULT_MAX_LOCAL_PASSES
RefineMaxPasses(opts) ==
  IF opts.maxLocalPasses = 0 THEN DEFAULT_MAX_LOCAL_PASSES ELSE opts.maxLocalPasses

RefineContinues(r, opts) == r.improved /\ ~(r.passes > RefineMaxPasses(opts))

RefineNextPassStep(r) ==
  [r EXCEPT !.improved = FALSE, !.passes = @ + 1, !.visited = {}]

\* line 141
RefineDoneStep(r, opts) ==
  [r EXCEPT !.pc = "levelEnd",
            !.refined = renumberCommunities(r.refined, r.graphAdapter, opts.preserveLabels),
            !.visited = {}]

effectivePartition(r, opts) == IF opts.refine THEN r.refined ELSE r.partition

\* lines 145-155 and the loop header of line 58: push the level, map the
\* original nodes, then stop or coarsen and start the next level
LevelEndStep(r, opts) ==
  LET eff == effectivePartition(r, opts)
      fineToCoarse == eff.nodeCommunity
      mapped == [i \in 1..Len(r.originalToCurrent) |->
                   ToInt32(Get(fineToCoarse, r.originalToCurrent[i]))]
      pushed == [r EXCEPT !.levels = @ + 1, !.originalToCurrent = mapped]
  IN IF r.partition.communityCount = r.graphAdapter.n \/ ~(r.level + 1 < opts.maxLevels)
     THEN [pushed EXCEPT !.pc = "done"]
     ELSE StartLevel(pushed,
                     makeGraphAdapter(ReadLinks(buildCoarseGraph(r.graphAdapter, eff),
                                                r.linkWeight), opts.directed),
                     r.level + 1)


(***************************************************************************)
(* detectClusters: the result object                                       *)
(***************************************************************************)
\* a quality value: [nan, num, den], the number num/den unless nan
Value(num, den) == [nan |-> FALSE, num |-> num, den |-> den]

NaNValue == [nan |-> TRUE, num |-> 0, den |-> 1]

\* === on two quality values
SameValue(a, b) == (~a.nan) /\ (~b.nan) /\ a.num * b.den = b.num * a.den

\* quality/modularity.js qualityModularity: one term of the sum, times m2^2
ModularityTerm(part, g, c) ==
  LET lc == Get(part.exposed.communityInternalEdgeWeight, c)
      dc == Get(part.exposed.communityTotalStrength, c)
      fc == Get(part.exposed.communityTotalOutStrength, c)
      tc == Get(part.exposed.communityTotalInStrength, c)
  IN IF g.directed THEN lc * g.totalWeight - fc * tc ELSE lc * g.totalWeight - dc * dc

qualityModularity(part, g) ==
  LET m2 == g.totalWeight
      defined == \A c \in 0..(part.communityCount - 1) :
                   /\ Get(part.exposed.communityInternalEdgeWeight, c) # Undefined
                   /\ Get(part.exposed.communityTotalStrength, c) # Undefined
  IN IF part.communityCount = 0 THEN Value(0, 1)
     ELSE IF m2 = 0 \/ ~defined THEN NaNValue
     ELSE Value(SumSeq([k \in 1..part.communityCount |-> ModularityTerm(part, g, k - 1)]),
                m2 * m2)

\* quality/cpm.js qualityCPM and qualityCPMSizeAware, times 2 * ResolutionDen
qualityCPM(part, g, gamma) ==
  LET term(c) == LET nc == Get(part.exposed.communityNodeCount, c)
                 IN 2 * ResolutionDen * Get(part.exposed.communityInternalEdgeWeight, c)
                    - gamma * (nc * (nc - 1))
      defined == \A c \in 0..(part.communityCount - 1) :
                   /\ Get(part.exposed.communityInternalEdgeWeight, c) # Undefined
                   /\ Get(part.exposed.communityNodeCount, c) # Undefined
  IN IF ~defined THEN NaNValue
     ELSE Value(SumSeq([k \in 1..part.communityCount |-> term(k - 1)]), 2 * ResolutionDen)

qualityCPMSizeAware(part, g, gamma) ==
  LET term(c) == LET S == OrZero(Get(part.exposed.communityTotalSize, c))
                 IN 2 * ResolutionDen * Get(part.exposed.communityInternalEdgeWeight, c)
                    - gamma * (S * (S - 1))
      defined == \A c \in 0..(part.communityCount - 1) :
                   Get(part.exposed.communityInternalEdgeWeight, c) # Undefined
  IN IF ~defined THEN NaNValue
     ELSE Value(SumSeq([k \in 1..part.communityCount |-> term(k - 1)]), 2 * ResolutionDen)

\* detectClusters(...).quality() of a finished run r
quality(r, opts) ==
  LET partition == effectivePartition(r, opts)
      finalGraph == r.graphAdapter
  IN IF opts.quality = "cpm"
     THEN IF opts.cpmMode = "size-aware"
          THEN qualityCPMSizeAware(partition, finalGraph, opts.resolution)
          ELSE qualityCPM(partition, finalGraph, opts.resolution)
     ELSE qualityModularity(partition, finalGraph)

\* toJSON().membership / getClass: the class of the i-th original node
Membership(r) == r.originalToCurrent

(***************************************************************************)
(* evaluateQuality (evaluate.js).  membership is a sequence over the node  *)
(* indices of the graph, Undefined where the mapping has no entry.         *)
(***************************************************************************)
RECURSIVE SumOver(_, _)
SumOver(S, f) ==
  IF S = {} THEN 0
  ELSE LET x == CHOOSE y \in S : TRUE IN f[x] + SumOver(S \ {x}, f)

\* the keys of the Map comm after pass 1
CommunityIds(adapter, membership) ==
  {Get(membership, i) : i \in {j \in 0..(adapter.n - 1) : Get(membership, j) # Undefined}}

\* the record of community cid after pass 1 and pass 2
CommunityRecord(adapter, membership, cid) ==
  LET mine(i) == Get(membership, i) = cid
      over(arr) == SumSeq([k \in 1..adapter.n |-> IF mine(k - 1) THEN arr[k] ELSE 0])
      inside(i) == SumSeq([k \in 1..Len(adapter.outEdges[i + 1]) |->
                             IF mine(adapter.outEdges[i + 1][k].to)
                             THEN adapter.outEdges[i + 1][k].w ELSE 0])
  IN [ strengthOut |-> over(adapter.strengthOut),
       strengthIn |-> over(adapter.strengthIn),
       strength |-> over(adapter.strengthOut),
       nodeCount |-> over([k \in 1..adapter.n |-> 1]),
       size |-> over(adapter.size),
       internal |-> SumSeq([k \in 1..adapter.n |-> IF mine(k - 1) THEN inside(k - 1) ELSE 0]) ]

evaluateModularity(recs, adapter, directed) ==
  LET m == IF adapter.totalWeight = 0 THEN 1 ELSE adapter.totalWeight
      term == [c \in DOMAIN recs |->
                 IF directed
                 THEN recs[c].internal * m - recs[c].strengthOut * recs[c].strengthIn
                 ELSE recs[c].internal * m - recs[c].strength * recs[c].strength]
  IN Value(SumOver(DOMAIN recs, term), m * m)

evaluateCPM(recs, adapter, options) ==
  LET gamma == options.resolution
      term == [c \in DOMAIN recs |->
                 LET x == IF options.cpmMode = "size-aware"
                          THEN recs[c].size ELSE recs[c].nodeCount
                 IN 2 * ResolutionDen * recs[c].internal - gamma * (x * (x - 1))]
  IN Value(SumOver(DOMAIN recs, term), 2 * ResolutionDen)

\* evaluateQuality without the throw of line 36
evaluateQualityLenient(graph, membership, options) ==
  LET adapter == makeGraphAdapter(graph, options.directed)
      recs == [c \in CommunityIds(adapter, membership) |->
                 CommunityRecord(adapter, membership, c)]
  IN [threw |-> FALSE, evaluated |-> FALSE,
      value |-> IF options.quality = "cpm"
                THEN evaluateCPM(recs, adapter, options)
                ELSE evaluateModularity(recs, adapter, options.directed)]

\* [threw, value]: threw is the Error('Missing membership for node: ...')
evaluateQuality(graph, membership, options) ==
  LET adapter == makeGraphAdapter(graph, options.directed)
      missing == \E i \in 0..(adapter.n - 1) : Get(membership, i) = Undefined
      recs == [c \in CommunityIds(adapter, membership) |->
                 CommunityRecord(adapter, membership, c)]
  IN IF missing /\ options.requireMembership
     THEN [threw |-> TRUE, value |-> NaNValue, evaluated |-> FALSE]
     ELSE [threw |-> FALSE, evaluated |-> FALSE,
           value |-> IF options.quality = "cpm"
                     THEN evaluateCPM(recs, adapter, options)
                     ELSE evaluateModularity(recs, adapter, options.directed)]


(***************************************************************************)
(* Options                                                                 *)
(***************************************************************************)
\* the options a caller passes, every field given; resolution is the        
\* numerator of gamma over ResolutionDen
DefaultOptions ==
  [ quality |-> "modularity", resolution |-> ResolutionDen, directed |-> FALSE,
    candidateStrategy |-> "neighbors", allowNewCommunity |-> FALSE,
    maxCommunitySize |-> Infinity, refine |-> TRUE, fixedNodes |-> {},
    preserveLabels |-> [kind |-> "false", map |-> << >>],
    maxLevels |-> DEFAULT_MAX_LEVELS, maxLocalPasses |-> DEFAULT_MAX_LOCAL_PASSES,
    cpmMode |-> "unit", requireMembership |-> FALSE ]

\* a normalizer that resolves the quality name together with cpmMode, so that
\* the optimiser's quality === 'cpm' test sees the mode
normalizeOptionsWithMode(options) ==
  [ directed |-> options.directed,
    maxLevels |-> options.maxLevels,
    maxLocalPasses |-> options.maxLocalPasses,
    allowNewCommunity |-> options.allowNewCommunity,
    candidateStrategy |-> options.candidateStrategy,
    quality |-> IF options.quality = "cpm" /\ options.cpmMode = "size-aware"
                THEN "cpm-size-aware" ELSE options.quality,
    resolution |-> options.resolution,
    refine |-> options.refine,
    preserveLabels |-> options.preserveLabels,
    maxCommunitySize |-> options.maxCommunitySize,
    fixedNodes |-> options.fixedNodes ]

\* what the optimiser keeps of them: cpmMode is not among the fields
normalizeOptions(options) ==
  [ directed |-> options.directed,
    maxLevels |-> options.maxLevels,
    maxLocalPasses |-> options.maxLocalPasses,
    allowNewCommunity |-> options.allowNewCommunity,
    candidateStrategy |-> options.candidateStrategy,
    quality |-> options.quality,
    resolution |-> options.resolution,
    refine |-> options.refine,
    preserveLabels |-> options.preserveLabels,
    maxCommunitySize |-> options.maxCommunitySize,
    fixedNodes |-> options.fixedNodes ]

\* runLouvainUndirectedModularity(graph, optionsInput) with optionsInput.linkWeight
\* given: line 41 and line 59 hand it to makeGraphAdapter through ...optionsInput
StartRunWith(graph, input) ==
  [StartRun(ReadLinks(graph, input.linkWeight), normalizeOptions(input))
     EXCEPT !.linkWeight = input.linkWeight]

(***************************************************************************)
(* State                                                                   *)
(***************************************************************************)
VARIABLES
  inputGraph,    \* the graph handed to detectClusters / evaluateQuality
  optionsInput,  \* the options handed to it
  run,           \* the run of runLouvainUndirectedModularity on them
  twin,          \* the run on the same graph, seed and options but the other cpmMode
  given,         \* the membership handed to evaluateQuality
  outcome,       \* what evaluateQuality returned, or that the call threw
  cli,           \* the command-line process (bin/ngraph-leiden.js)
  direct         \* a partition used through its own operations

vars == <<inputGraph, optionsInput, run, twin, given, outcome, cli, direct>>

Options == normalizeOptions(optionsInput)

OtherMode(mode) == IF mode = "unit" THEN "size-aware" ELSE "unit"

TwinInput == [optionsInput EXCEPT !.cpmMode = OtherMode(@)]

TwinOptions == normalizeOptions(TwinInput)

NoRun == [pc |-> "none"]

NotEvaluated == [threw |-> FALSE, value |-> NaNValue, evaluated |-> FALSE]

NoProcess == [pc |-> "none"]

NoDirect == [pc |-> "none"]

\* detectClusters(inputGraph, optionsInput) is entered
Begin(graph, options) ==
  /\ inputGraph = graph
  /\ optionsInput = options
  /\ run = StartRun(graph, normalizeOptions(options))
  /\ twin = IF options.quality = "cpm"
            THEN StartRun(graph, normalizeOptions([options EXCEPT !.cpmMode = OtherMode(@)]))
            ELSE NoRun
  /\ given = << >>
  /\ outcome = NotEvaluated
  /\ cli = NoProcess
  /\ direct = NoDirect

\* the values the random source yields while node v is handled
VisitDraws(r, opts, v) ==
  IF r.level = 0 /\ v \in r.fixedNodeMask THEN {<< >>}
  ELSE DrawsFor(accumulateNeighborCommunityEdgeWeights(r.partition, r.graphAdapter, v), opts)

(***************************************************************************)
(* Actions: the steps of runLouvainUndirectedModularity.  The twin takes   *)
(* the same step with the same random values whenever it stands at the     *)
(* same place.                                                             *)
(***************************************************************************)
LocalMoveVisit ==
  /\ run.pc = "localMove"
  /\ \E v \in Unvisited(run) : \E draws \in VisitDraws(run, Options, v) :
       /\ run' = LocalMoveVisitStep(run, Options, v, draws)
       /\ twin' = IF twin.pc = "localMove" /\ v \in Unvisited(twin)
                  THEN LocalMoveVisitStep(twin, TwinOptions, v, draws) ELSE twin
  /\ UNCHANGED <<inputGraph, optionsInput, given, outcome, cli, direct>>

LocalMoveNextPass ==
  /\ run.pc = "localMove" /\ Unvisited(run) = {}
  /\ LocalMoveContinues(run, Options)
  /\ run' = LocalMoveNextPassStep(run)
  /\ twin' = IF twin.pc = "localMove" /\ Unvisited(twin) = {}
                /\ LocalMoveContinues(twin, TwinOptions)
             THEN LocalMoveNextPassStep(twin) ELSE twin
  /\ UNCHANGED <<inputGraph, optionsInput, given, outcome, cli, direct>>

Renumber ==
  /\ run.pc = "localMove" /\ Unvisited(run) = {}
  /\ ~LocalMoveContinues(run, Options)
  /\ run' = RenumberStep(run, Options)
  /\ twin' = IF twin.pc = "localMove" /\ Unvisited(twin) = {}
                /\ ~LocalMoveContinues(twin, TwinOptions)
             THEN RenumberStep(twin, TwinOptions) ELSE twin
  /\ UNCHANGED <<inputGraph, optionsInput, given, outcome, cli, direct>>

RefineVisit ==
  /\ run.pc = "refine"
  /\ \E v \in Unvisited(run) :
       /\ run' = RefineVisitStep(run, Options, v)
       /\ twin' = IF twin.pc = "refine" /\ v \in Unvisited(twin)
                  THEN RefineVisitStep(twin, TwinOptions, v) ELSE twin
  /\ UNCHANGED <<inputGraph, optionsInput, given, outcome, cli, direct>>

RefineNextPass ==
  /\ run.pc = "refine" /\ Unvisited(run) = {}
  /\ RefineContinues(run, Options)
  /\ run' = RefineNextPassStep(run)
  /\ twin' = IF twin.pc = "refine" /\ Unvisited(twin) = {} /\ RefineContinues(twin, TwinOptions)
             THEN RefineNextPassStep(twin) ELSE twin
  /\ UNCHANGED <<inputGraph, optionsInput, given, outcome, cli, direct>>

RefineDone ==
  /\ run.pc = "refine" /\ Unvisited(run) = {}
  /\ ~RefineContinues(run, Options)
  /\ run' = RefineDoneStep(run, Options)
  /\ twin' = IF twin.pc = "refine" /\ Unvisited(twin) = {} /\ ~RefineContinues(twin, TwinOptions)
             THEN RefineDoneStep(twin, TwinOptions) ELSE twin
  /\ UNCHANGED <<inputGraph, optionsInput, given, outcome, cli, direct>>

LevelEnd ==
  /\ run.pc = "levelEnd"
  /\ run' = LevelEndStep(run, Options)
  /\ twin' = IF twin.pc = "levelEnd" THEN LevelEndStep(twin, TwinOptions) ELSE twin
  /\ UNCHANGED <<inputGraph, optionsInput, given, outcome, cli, direct>>

Next ==
  \/ LocalMoveVisit
  \/ LocalMoveNextPass
  \/ Renumber
  \/ RefineVisit
  \/ RefineNextPass
  \/ RefineDone
  \/ LevelEnd


(***************************************************************************)
(* Inputs                                                                  *)
(***************************************************************************)
MaxWeight == 2

MaxNodeSize == 2

MaxResolution == 2

MaxPasses == 1

MaxLevels == 2

Link(fromId, toId, weight) == [fromId |-> fromId, toId |-> toId, weight |-> weight]

\* graph.addNode(id, {size}) for ids 0, 1, 2, then graph.addLink(a, b, {weight}):
\* the link 0-1, optionally the link 1-2 (without it node 2 is isolated),
\* and optionally a self-loop on node 2 or the reverse link 1->0
Graph3(w01, w12, extra, size0) ==
  [ nodeIds |-> <<0, 1, 2>>,
    nodeSize |-> <<size0, 1, 1>>,
    links |-> <<Link(0, 1, w01)>>
              \o (IF w12 > 0 THEN <<Link(1, 2, w12)>> ELSE << >>)
              \o (IF extra = "loop" THEN <<Link(2, 2, 1)>>
                  ELSE IF extra = "back" THEN <<Link(1, 0, w01)>> ELSE << >>) ]

Graphs ==
  {Graph3(w01, w12, "none", size0) :
     w01 \in 1..MaxWeight, w12 \in 0..1, size0 \in 1..MaxNodeSize}
  \cup {Graph3(w01, w12, extra, 1) :
          w01 \in 1..MaxWeight, w12 \in 0..1, extra \in {"loop", "back"}}

\* the graphs on which the 'random' strategy is run: the paths 0-1-2
PathGraphs == {Graph3(w01, 1, "none", 1) : w01 \in 1..MaxWeight}

\* quality, directed, cpmMode and resolution as a caller combines them
Modes ==
  {[DefaultOptions EXCEPT !.directed = d] : d \in BOOLEAN}
  \cup {[DefaultOptions EXCEPT !.quality = "cpm", !.cpmMode = mode, !.resolution = res] :
          mode \in {"unit", "size-aware"}, res \in 1..MaxResolution}

\* maxLocalPasses with the maxLevels it is combined with
PassesAndLevels == {<<mp, IF mp + 1 < MaxLevels THEN mp + 1 ELSE MaxLevels>> : mp \in 0..MaxPasses}

\* the modes under every refine, maxLocalPasses and maxLevels
ModeOptions ==
  {[m EXCEPT !.refine = rf, !.maxLocalPasses = pl[1], !.maxLevels = pl[2]] :
     m \in Modes, rf \in BOOLEAN, pl \in PassesAndLevels}

\* the other options, one changed at a time (and one combination)
Variations ==
  LET base == [DefaultOptions EXCEPT !.maxLocalPasses = 1, !.maxLevels = MaxLevels]
  IN {[base EXCEPT !.candidateStrategy = cs] : cs \in {"all", "random", "random-neighbor"}}
     \cup {[base EXCEPT !.allowNewCommunity = TRUE]}
     \cup {[base EXCEPT !.maxCommunitySize = MaxNodeSize]}
     \cup {[base EXCEPT !.fixedNodes = f] : f \in {{0}, {0, 1}}}
     \cup {[base EXCEPT !.fixedNodes = {0, 1}, !.candidateStrategy = "all",
                        !.allowNewCommunity = TRUE]}
     \cup {[base EXCEPT !.preserveLabels = [kind |-> "true", map |-> << >>]]}

\* the variations under undirected modularity and under CPM
VariationOptions ==
  Variations
  \cup {[v EXCEPT !.quality = "cpm", !.cpmMode = "size-aware", !.resolution = 1] :
          v \in Variations}

Init == \E graph \in Graphs : \E options \in ModeOptions \cup VariationOptions :
          /\ options.candidateStrategy = "random" => graph \in PathGraphs
          /\ Begin(graph, options)

Spec == Init /\ [][Next]_vars


(***************************************************************************)
(* Graphs with more than one connected component                           *)
(***************************************************************************)
\* three nodes, one of them (iso) without a link to the other two
Apart3(w, extra, iso) ==
  LET a == IF iso = 0 THEN 1 ELSE 0
      b == IF iso = 2 THEN 1 ELSE 2
  IN [ nodeIds |-> <<0, 1, 2>>,
       nodeSize |-> <<1, 1, 1>>,
       links |-> <<Link(a, b, w)>>
                 \o (IF extra = "loop" THEN <<Link(iso, iso, 1)>>
                     ELSE IF extra = "back" THEN <<Link(b, a, w)>> ELSE << >>) ]

\* four nodes, the components {0, 1} and {2, 3}
TwoPairs(w) ==
  [ nodeIds |-> <<0, 1, 2, 3>>,
    nodeSize |-> <<1, 1, 1, 1>>,
    links |-> <<Link(0, 1, w), Link(2, 3, 1)>> ]

ComponentGraphs ==
  {Apart3(1, extra, iso) : extra \in {"none", "loop", "back"}, iso \in 0..2}
  \cup {TwoPairs(w) : w \in 1..MaxWeight}

\* the 'neighbors' strategy under every mode, with and without refinement,
\* new communities and a size cap that forbids every merge
ComponentOptions ==
  {[m EXCEPT !.refine = rf, !.allowNewCommunity = an, !.maxCommunitySize = cap,
             !.maxLocalPasses = MaxPasses, !.maxLevels = MaxLevels] :
     m \in Modes, rf \in BOOLEAN, an \in BOOLEAN, cap \in {1, Infinity}}

InitComponents == \E graph \in ComponentGraphs : \E options \in ComponentOptions :
                    Begin(graph, options)

SpecComponents == InitComponents /\ [][Next]_vars

(***************************************************************************)
(* evaluateQuality called on its own                                       *)
(***************************************************************************)
\* a community id that is not a node index
FarId == 7

\* node i has community ids[i], or no entry where ids[i] = Undefined
Memberships == [1..3 -> {Undefined, 0, 1, FarId}]

EvalOptions == {[m EXCEPT !.requireMembership = rm] : m \in Modes, rm \in BOOLEAN}

InitEval ==
  \E graph \in Graphs : \E options \in EvalOptions : \E membership \in Memberships :
    /\ inputGraph = graph
    /\ optionsInput = options
    /\ given = membership
    /\ outcome = NotEvaluated
    /\ run = NoRun
    /\ twin = NoRun
    /\ cli = NoProcess
    /\ direct = NoDirect

Evaluate ==
  /\ ~outcome.evaluated
  /\ outcome' = [evaluateQuality(inputGraph, given, optionsInput) EXCEPT !.evaluated = TRUE]
  /\ UNCHANGED <<inputGraph, optionsInput, given, run, twin, cli, direct>>

NextEval == Evaluate

SpecEval == InitEval /\ [][NextEval]_vars


(***************************************************************************)
(* detectClusters called with a list of layers (aggregateLayers)           *)
(*                                                                         *)
(* A layer is [graph, weight]; node ids are strings here, as the keys of  *)
(* the Map acc are.                                                        *)
(***************************************************************************)
\* acc.set(key, (acc.get(key) || 0) + w) on the Map as the sequence of its
\* entries [u, v, w] in insertion order
LayerAccSet(acc, u, v, w) ==
  IF \E k \in 1..Len(acc) : acc[k].u = u /\ acc[k].v = v
  THEN LET at == CHOOSE k \in 1..Len(acc) : acc[k].u = u /\ acc[k].v = v
       IN [acc EXCEPT ![at] = [@ EXCEPT !.w = @ + w]]
  ELSE Append(acc, [u |-> u, v |-> v, w |-> w])

\* the forEachLink callback of layer `layer` for its k-th link and the ones after
RECURSIVE LayerLinks(_, _, _, _)
LayerLinks(acc, layer, hasNode, k) ==
  IF k > Len(layer.graph.links) THEN acc
  ELSE LET link == layer.graph.links[k]
           w == layer.weight * link.weight
           next == IF link.fromId \notin hasNode \/ link.toId \notin hasNode \/ w = 0
                   THEN acc
                   ELSE LayerAccSet(acc, link.fromId, link.toId, w)
       IN LayerLinks(next, layer, hasNode, k + 1)

RECURSIVE LayersAcc(_, _, _, _)
LayersAcc(acc, layers, hasNode, l) ==
  IF l > Len(layers) THEN acc
  ELSE LayersAcc(LayerLinks(acc, layers[l], hasNode, 1), layers, hasNode, l + 1)

\* the ids a graph holds
NodeSet(graph) == {graph.nodeIds[k] : k \in 1..Len(graph.nodeIds)}

\* [threw, graph]: threw is one of the two Errors, graph the aggregated graph
aggregateLayers(layers) ==
  IF Len(layers) = 0 THEN [threw |-> TRUE, graph |-> << >>]
  ELSE LET g0 == layers[1].graph
           hasNode == NodeSet(g0)
           missingInBase == \E l \in 2..Len(layers) : ~(NodeSet(layers[l].graph) \subseteq hasNode)
           acc == LayersAcc(<< >>, layers, hasNode, 1)
       IN IF missingInBase THEN [threw |-> TRUE, graph |-> << >>]
          ELSE [threw |-> FALSE,
                graph |-> [nodeIds |-> g0.nodeIds,
                           nodeSize |-> g0.nodeSize,
                           links |-> [k \in 1..Len(acc) |->
                                        Link(acc[k].u, acc[k].v, acc[k].w)]]]

\* a layer graph on the given ids: the link a-b and, where c is a node, b-c
LayerGraph(ids, w) ==
  [ nodeIds |-> ids,
    nodeSize |-> [k \in 1..Len(ids) |-> 1],
    links |-> <<Link("a", "b", w)>>
              \o (IF \E k \in 1..Len(ids) : ids[k] = "c" THEN <<Link("b", "c", 1)>> ELSE << >>) ]

LayerIds == {<<"a", "b">>, <<"b", "a">>, <<"a", "b", "c">>, <<"c", "a", "b">>}

Layers == {[graph |-> LayerGraph(ids, w), weight |-> lw] :
             ids \in LayerIds, w \in 1..MaxWeight, lw \in 0..1}

\* the first layer of a list: unit weights
FirstLayers == {[graph |-> LayerGraph(ids, 1), weight |-> 1] : ids \in LayerIds}

\* the lists of at most two layers
LayerLists ==
  {<< >>} \cup {<<a>> : a \in FirstLayers} \cup {<<a, b>> : a \in FirstLayers, b \in Layers}

LayerOptions ==
  {[DefaultOptions EXCEPT !.directed = d, !.maxLocalPasses = MaxPasses, !.maxLevels = MaxLevels] :
     d \in BOOLEAN}

\* detectClusters is about to be called with a list of layers
InitLayers ==
  \E layers \in LayerLists : \E options \in LayerOptions :
    /\ inputGraph = layers
    /\ optionsInput = options
    /\ given = << >>
    /\ outcome = NotEvaluated
    /\ run = NoRun
    /\ twin = NoRun
    /\ cli = NoProcess
    /\ direct = NoDirect

\* detectClusters lines 8-12: aggregate the layers, then enter the optimiser
AggregateLayers ==
  /\ run = NoRun /\ ~outcome.threw
  /\ LET agg == aggregateLayers(inputGraph)
     IN IF agg.threw
        THEN /\ outcome' = [outcome EXCEPT !.threw = TRUE]
             /\ run' = run
        ELSE /\ outcome' = outcome
             /\ run' = StartRun(agg.graph, Options)
  /\ UNCHANGED <<inputGraph, optionsInput, given, twin, cli, direct>>

NextLayers == AggregateLayers \/ Next

SpecLayers == InitLayers /\ [][NextLayers]_vars

(***************************************************************************)
(* Command line (bin/ngraph-leiden.js).  argv holds the user's arguments,   *)
(* process.argv from index 2 on.  A text is known by its kind: the JSON of  *)
(* a graph, the DOT of a graph or the JSON of a membership mapping.  What   *)
(* the process wrote is known by its kind too.                              *)
(***************************************************************************)
Missing == "undefined"

NoArgs ==
  [help |-> FALSE, version |-> FALSE, in |-> Missing, format |-> Missing, out |-> Missing,
   outFormat |-> Missing, directed |-> FALSE, quality |-> Missing, resolution |-> NaN,
   maxLevels |-> NaN, maxLocalPasses |-> NaN, candidateStrategy |-> Missing,
   maxCommunitySize |-> NaN, randomSeed |-> NaN, allowNewCommunity |-> FALSE,
   refine |-> TRUE, fixed |-> Missing, membership |-> Missing, membershipOnly |-> FALSE,
   evaluate |-> FALSE, bad |-> FALSE]

\* the strings an argument can be
ArgStrings ==
  {"--help", "--version", "--in", "--out", "--format", "--out-format", "--evaluate",
   "--membership", "--bogus", "-x", "g.json", "g.dot", "m.json", "CSV"}

\* a.startsWith('-')
startsWithDash(a) ==
  a \in {"-h", "--help", "-v", "--version", "--in", "--format", "--out", "--out-format",
         "--directed", "--quality", "--resolution", "--max-levels", "--max-local-passes",
         "--candidate-strategy", "--max-community-size", "--random-seed",
         "--allow-new-community", "--no-refine", "--fixed", "--membership-only",
         "--evaluate", "--membership", "--bogus", "-x"}

\* parseFloat / parseInt: none of the strings above is a numeral
parseNumber(s) == NaN

\* s.toLowerCase()
toLowerCase(s) == IF s = "CSV" THEN "csv" ELSE s

RECURSIVE parseArgsFrom(_, _, _)
parseArgsFrom(args, argv, i) ==
  IF i > Len(argv) THEN args
  ELSE
    LET a == argv[i]
        \* argv[++i]
        value == IF i + 1 <= Len(argv) THEN argv[i + 1] ELSE Missing
        flag(set) == parseArgsFrom(set, argv, i + 1)
        taken(set) == parseArgsFrom(set, argv, i + 2)
    IN
      IF a = "-h" \/ a = "--help" THEN flag([args EXCEPT !.help = TRUE])
      ELSE IF a = "-v" \/ a = "--version" THEN flag([args EXCEPT !.version = TRUE])
      ELSE IF a = "--in" THEN taken([args EXCEPT !.in = value])
      ELSE IF a = "--format" THEN taken([args EXCEPT !.format = value])
      ELSE IF a = "--out" THEN taken([args EXCEPT !.out = value])
      ELSE IF a = "--out-format" THEN taken([args EXCEPT !.outFormat = value])
      ELSE IF a = "--directed" THEN flag([args EXCEPT !.directed = TRUE])
      ELSE IF a = "--quality" THEN taken([args EXCEPT !.quality = value])
      ELSE IF a = "--resolution" THEN taken([args EXCEPT !.resolution = parseNumber(value)])
      ELSE IF a = "--max-levels" THEN taken([args EXCEPT !.maxLevels = parseNumber(value)])
      ELSE IF a = "--max-local-passes"
        THEN taken([args EXCEPT !.maxLocalPasses = parseNumber(value)])
      ELSE IF a = "--candidate-strategy"
        THEN taken([args EXCEPT !.candidateStrategy = value])
      ELSE IF a = "--max-community-size"
        THEN taken([args EXCEPT !.maxCommunitySize = parseNumber(value)])
      ELSE IF a = "--random-seed" THEN taken([args EXCEPT !.randomSeed = parseNumber(value)])
      ELSE IF a = "--allow-new-community" THEN flag([args EXCEPT !.allowNewCommunity = TRUE])
      ELSE IF a = "--no-refine" THEN flag([args EXCEPT !.refine = FALSE])
      ELSE IF a = "--fixed" THEN taken([args EXCEPT !.fixed = value])
      ELSE IF a = "--membership-only" THEN flag([args EXCEPT !.membershipOnly = TRUE])
      ELSE IF a = "--evaluate" THEN flag([args EXCEPT !.evaluate = TRUE])
      ELSE IF a = "--membership" THEN taken([args EXCEPT !.membership = value])
      ELSE IF startsWithDash(a) THEN flag([args EXCEPT !.bad = TRUE])
      ELSE flag(args)

parseArgs(argv) == parseArgsFrom(NoArgs, argv, 1)

\* the files of the working directory and the kind of their text
Files == ("g.json" :> "graph-json") @@ ("g.dot" :> "graph-dot") @@ ("m.json" :> "mapping-json")

\* fs.readFileSync(path, 'utf8')
readFileSync(name) ==
  IF name \in DOMAIN Files THEN [threw |-> FALSE, text |-> Files[name]]
  ELSE [threw |-> TRUE, text |-> Missing]

\* path.extname(name).toLowerCase()
extname(name) ==
  IF name \in {"g.json", "m.json"} THEN ".json" ELSE IF name = "g.dot" THEN ".dot" ELSE ""

sniffFormat(text) == IF text = "graph-dot" THEN "dot" ELSE "json"

\* fromdot(text) / buildGraphFromJSON(text) return a graph or throw
GraphParsed(fmt, text) ==
  \/ fmt = "dot" /\ text = "graph-dot"
  \/ fmt = "json" /\ text = "graph-json"

\* JSON.parse(mText)
JsonParsed(text) == text \in {"graph-json", "mapping-json"}

NoOutput == "none"

Exited(code) == [exitCode |-> code, stdout |-> NoOutput, outFile |-> NoOutput]

\* the output goes to the --out file when one is named and to stdout otherwise
Written(args, output) ==
  IF args.out # Missing
  THEN [exitCode |-> 0, stdout |-> NoOutput, outFile |-> output]
  ELSE [exitCode |-> 0, stdout |-> output, outFile |-> NoOutput]

\* main from the output format on (lines 221-255)
EmitMembership(args, hasTodot) ==
  LET outFmt == toLowerCase(IF args.outFormat # Missing THEN args.outFormat ELSE "json")
  IN IF outFmt = "json"
       THEN Written(args, IF args.membershipOnly THEN "membership" ELSE "membership+meta")
     ELSE IF outFmt = "csv" THEN Written(args, "membership-csv")
     ELSE IF outFmt = "dot"
       THEN IF hasTodot THEN Written(args, "membership-dot") ELSE Exited(5)
     ELSE Exited(4)

\* main once the input text is read (lines 159-255)
MainOnText(args0, text, hasTodot) ==
  LET format == IF args0.format # Missing THEN args0.format
                ELSE IF args0.in # Missing /\ extname(args0.in) \in {".dot", ".gv"} THEN "dot"
                ELSE IF args0.in # Missing /\ extname(args0.in) = ".json" THEN "json"
                ELSE sniffFormat(text)
      args == [args0 EXCEPT !.format = format]
      fmt == toLowerCase(format)
      membershipFile == readFileSync(args.membership)
      fixedFile == readFileSync(args.fixed)
  IN IF fmt \notin {"dot", "json"} THEN Exited(2)
     ELSE IF ~GraphParsed(fmt, text) THEN Exited(1)
     ELSE IF args.membership # Missing /\ (membershipFile.threw \/ ~JsonParsed(membershipFile.text))
       THEN Exited(1)
     ELSE IF args.fixed # Missing /\ fixedFile.threw THEN Exited(1)
     ELSE IF args.evaluate
       THEN IF args.membership = Missing THEN Exited(3) ELSE Written(args, "quality")
     ELSE EmitMembership(args, hasTodot)

\* main after loadLib and parseArgs (lines 127-255) and the catch at line 258
main(args, isTTY, hasTodot) ==
  IF args.help THEN Exited(0)
  ELSE IF args.version THEN [Exited(0) EXCEPT !.stdout = "version"]
  ELSE IF args.in = Missing /\ isTTY THEN Exited(1)
  ELSE IF args.in # Missing
    THEN LET file == readFileSync(args.in)
         IN IF file.threw THEN Exited(1) ELSE MainOnText(args, file.text, hasTodot)
  ELSE MainOnText(args, "graph-json", hasTodot)

\* the longest command line
MaxArgs == 3

ArgLists == UNION {[1..n -> ArgStrings] : n \in 0..MaxArgs}

InitCli ==
  \E argv \in ArgLists : \E isTTY \in BOOLEAN : \E hasTodot \in BOOLEAN :
    /\ cli = [pc |-> "start", argv |-> argv, isTTY |-> isTTY, hasTodot |-> hasTodot,
              args |-> NoArgs, exitCode |-> 0, stdout |-> NoOutput, outFile |-> NoOutput]
    /\ inputGraph = << >>
    /\ optionsInput = DefaultOptions
    /\ given = << >>
    /\ outcome = NotEvaluated
    /\ run = NoRun
    /\ twin = NoRun
    /\ direct = NoDirect

CliParseArgs ==
  /\ cli.pc = "start"
  /\ cli' = [cli EXCEPT !.pc = "parsed", !.args = parseArgs(cli.argv)]
  /\ UNCHANGED <<inputGraph, optionsInput, given, outcome, run, twin, direct>>

CliMain ==
  /\ cli.pc = "parsed"
  /\ LET end == main(cli.args, cli.isTTY, cli.hasTodot)
     IN cli' = [cli EXCEPT !.pc = "exited", !.exitCode = end.exitCode,
                           !.stdout = end.stdout, !.outFile = end.outFile]
  /\ UNCHANGED <<inputGraph, optionsInput, given, outcome, run, twin, direct>>

NextCli == CliParseArgs \/ CliMain

SpecCli == InitCli /\ [][NextCli]_vars

(***************************************************************************)
(* A partition used through its own operations: makePartition and          *)
(* initializeAggregates, then accumulateNeighborCommunityEdgeWeights(v)    *)
(* followed by moveNodeToCommunity(v, c), and compactCommunityIds.         *)
(***************************************************************************)
\* the longest sequence of operations after initializeAggregates
MaxMoves == 2

DirectGraphs ==
  {Graph3(w01, w12, extra, size0) :
     w01 \in 1..MaxWeight, w12 \in 0..1, extra \in {"none", "loop", "back"},
     size0 \in 0..MaxNodeSize}

DirectOptions ==
  {[DefaultOptions EXCEPT !.directed = d] : d \in BOOLEAN}
  \cup {[DefaultOptions EXCEPT !.quality = "cpm", !.cpmMode = "size-aware",
                               !.directed = d, !.resolution = res] :
          d \in BOOLEAN, res \in 1..MaxResolution}

\* partition.deltaModularityUndirected / deltaModularityDirected / deltaCPM
GainDelta(p, graph, v, c, opts) ==
  IF opts.quality = "cpm" THEN deltaCPM(p, graph, v, c, opts.resolution)
  ELSE IF opts.directed THEN deltaModularityDirected(p, graph, v, c)
  ELSE deltaModularityUndirected(p, graph, v, c)

\* diffModularity (which hands over to diffModularityDirected) / diffCPM
GainDiff(p, graph, v, c, opts) ==
  IF opts.quality = "cpm" THEN diffCPM(p, graph, v, c, opts.resolution)
  ELSE diffModularity(p, graph, v, c)

\* the global quality of the partition's assignment, by the edge scan
GlobalQuality(graph, p, opts) == evaluateQuality(graph, p.nodeCommunity, opts).value

NoMove ==
  [op |-> "init", v |-> 0, from |-> 0, to |-> 0, delta |-> Num(0), diff |-> Num(0),
   before |-> NaNValue, after |-> NaNValue]

StartDirect(graph, opts) ==
  LET g == makeGraphAdapter(graph, opts.directed)
  IN [pc |-> "direct", graphAdapter |-> g,
      partition |-> initializeAggregates(makePartition(g), g),
      steps |-> 0, grown |-> FALSE, compacted |-> FALSE, last |-> NoMove]

\* accumulateNeighborCommunityEdgeWeights(v), the gains for (v, c),
\* then moveNodeToCommunity(v, c)
DirectMoveStep(d, graph, opts, v, c) ==
  LET g == d.graphAdapter
      p1 == accumulateNeighborCommunityEdgeWeights(d.partition, g, v)
      p2 == moveNodeToCommunity(p1, g, v, c)
  IN [d EXCEPT !.partition = p2,
               !.steps = @ + 1,
               !.grown = @ \/ c >= p1.communityCount,
               !.last = [op |-> "move", v |-> v, from |-> Get(p1.nodeCommunity, v), to |-> c,
                         delta |-> GainDelta(p1, g, v, c, opts),
                         diff |-> GainDiff(p1, g, v, c, opts),
                         before |-> GlobalQuality(graph, p1, opts),
                         after |-> GlobalQuality(graph, p2, opts)]]

DirectCompactStep(d, mode) ==
  [d EXCEPT !.partition = compactCommunityIds(d.partition, d.graphAdapter, mode),
            !.steps = @ + 1,
            !.compacted = TRUE,
            !.last = [NoMove EXCEPT !.op = "compact"]]

InitDirect ==
  \E graph \in DirectGraphs : \E options \in DirectOptions :
    /\ inputGraph = graph
    /\ optionsInput = options
    /\ direct = StartDirect(graph, options)
    /\ given = << >>
    /\ outcome = NotEvaluated
    /\ run = NoRun
    /\ twin = NoRun
    /\ cli = NoProcess

DirectMove ==
  /\ direct.pc = "direct"
  /\ direct.steps < MaxMoves
  /\ \E v \in 0..(direct.partition.n - 1) : \E c \in 0..direct.partition.communityCount :
       direct' = DirectMoveStep(direct, inputGraph, optionsInput, v, c)
  /\ UNCHANGED <<inputGraph, optionsInput, given, outcome, run, twin, cli>>

\* opts.preserveMap: a Map from old community ids to ranks, with entries for
\* some of the ids and with equal ranks
PreserveMaps == {<<1, 0, Undefined>>, <<0, 0, 1>>, <<Undefined, Undefined, 0>>}

\* the argument of compactCommunityIds: none, { keepOldOrder: true } or
\* { preserveMap }
CompactModes ==
  {[keepOldOrder |-> keep, preserveMap |-> << >>] : keep \in BOOLEAN}
  \cup {[keepOldOrder |-> FALSE, preserveMap |-> m] : m \in PreserveMaps}

DirectCompact ==
  /\ direct.pc = "direct"
  /\ direct.steps < MaxMoves
  /\ \E mode \in CompactModes : direct' = DirectCompactStep(direct, mode)
  /\ UNCHANGED <<inputGraph, optionsInput, given, outcome, run, twin, cli>>

NextDirect == DirectMove \/ DirectCompact

SpecDirect == InitDirect /\ [][NextDirect]_vars


(***************************************************************************)
(* Runs with a linkWeight function in the options                          *)
(***************************************************************************)
\* the graph whose links keep their weight in data.w instead of data.weight
KeyedByW(graph) ==
  [graph EXCEPT !.links =
     [k \in 1..Len(graph.links) |->
        [fromId |-> graph.links[k].fromId, toId |-> graph.links[k].toId,
         w |-> graph.links[k].weight]]]

\* a graph with the linkWeight that reads it
AccessorInputs ==
  {<<g, kind>> : g \in Graphs, kind \in {"data.weight", "one"}}
  \cup {<<KeyedByW(g), "data.w">> : g \in Graphs}

AccessorOptions ==
  {[DefaultOptions EXCEPT !.directed = d, !.refine = rf,
                          !.maxLocalPasses = 1, !.maxLevels = MaxLevels] :
     d \in BOOLEAN, rf \in BOOLEAN}

InitAccessors ==
  \E inp \in AccessorInputs : \E options \in AccessorOptions :
    /\ inputGraph = inp[1]
    /\ optionsInput = [f \in DOMAIN options \cup {"linkWeight"} |->
                         IF f = "linkWeight" THEN inp[2] ELSE options[f]]
    /\ run = StartRunWith(inputGraph, optionsInput)
    /\ twin = NoRun
    /\ given = << >>
    /\ outcome = NotEvaluated
    /\ cli = NoProcess
    /\ direct = NoDirect

SpecAccessors == InitAccessors /\ [][Next]_vars


(***************************************************************************)
(* Runs with allowNewCommunity                                             *)
(***************************************************************************)
\* allowNewCommunity: true under the strategies whose random values range
\* over the candidate list or which draw none
NewCommunityOptions ==
  {[DefaultOptions EXCEPT !.allowNewCommunity = TRUE, !.candidateStrategy = cs,
                          !.maxLocalPasses = 1, !.maxLevels = MaxLevels] :
     cs \in {"neighbors", "all", "random-neighbor"}}

InitNewCommunity ==
  \E graph \in PathGraphs : \E options \in NewCommunityOptions : Begin(graph, options)

SpecNewCommunity == InitNewCommunity /\ [][Next]_vars


(***************************************************************************)
(* Undirected runs on graphs whose pairs of nodes carry links in one or    *)
(* both directions, parallel links and links of weight zero                *)
(***************************************************************************)
\* the links a graph is made of; the weights are even, so that the average
\* of the two directions is an integer
PairLinkSet ==
  {Link(e[1], e[2], 2 * k) : e \in {<<0, 1>>, <<1, 0>>, <<1, 2>>}, k \in 0..MaxWeight}

PairGraphs ==
  {[nodeIds |-> <<0, 1, 2>>, nodeSize |-> <<1, 1, 1>>, links |-> ls] :
     ls \in {<<a>> : a \in PairLinkSet} \cup {<<a, b>> : a \in PairLinkSet, b \in PairLinkSet}}

PairOptions == {[DefaultOptions EXCEPT !.maxLocalPasses = 1, !.maxLevels = MaxLevels]}

InitPairs == \E graph \in PairGraphs : \E options \in PairOptions : Begin(graph, options)

SpecPairs == InitPairs /\ [][Next]_vars


(***************************************************************************)
(* Properties                                                              *)
(***************************************************************************)
Done == run.pc = "done"

\* the original nodes, as indices into Membership(run) and inputGraph.nodeIds
OriginalNodes == 1..Len(inputGraph.nodeIds)

\* the original nodes that ended in the community of original node i
Companions(i) == {j \in OriginalNodes : Membership(run)[j] = Membership(run)[i]}

\* the sum of the sizes of the original nodes in the community of node i
OriginalSize(i) ==
  SumSeq([j \in OriginalNodes |-> IF j \in Companions(i) THEN inputGraph.nodeSize[j] ELSE 0])

\* C2: when detectClusters has returned, evaluateQuality on the input graph,
\* the emitted membership and the same options returns the value quality()
\* reports.
C2_QualityRoundTrip ==
  Done => SameValue(quality(run, optionsInput),
                    evaluateQuality(inputGraph, Membership(run), optionsInput).value)

\* C3: with maxCommunitySize set, every final community that holds more than
\* one original node has a total size, summed over its original nodes, of at
\* most maxCommunitySize.
C3_SizeCapRespected ==
  Done /\ optionsInput.maxCommunitySize < Infinity =>
    \A i \in OriginalNodes :
      Cardinality(Companions(i)) > 1 => OriginalSize(i) <= optionsInput.maxCommunitySize

FixedApart(nodeCommunity) ==
  \A f \in run.fixedNodeMask : \A g \in run.fixedNodeMask :
    f # g => Get(nodeCommunity, f) # Get(nodeCommunity, g)

\* C4: at level 0 no fixed node is ever moved, by the local-move loop or by
\* the refinement loop: while a loop runs every fixed node is in the community
\* it founded, and in the partitions the level hands on (after renumbering) two
\* distinct fixed nodes are never in the same community.
C4_FixedNodesStay ==
  run.level = 0 /\ ~Done =>
    /\ run.pc = "localMove" =>
         \A f \in run.fixedNodeMask : Get(run.partition.nodeCommunity, f) = f
    /\ run.pc = "refine" =>
         \A f \in run.fixedNodeMask : Get(run.refined.nodeCommunity, f) = f
    /\ run.pc \in {"refine", "levelEnd"} => FixedApart(run.partition.nodeCommunity)
    /\ run.pc = "levelEnd" /\ optionsInput.refine => FixedApart(run.refined.nodeCommunity)

\* level 0 is about to be coarsened, two linked nodes are fixed and apart, and a
\* free node has joined the community of a fixed one
C4_Witness ==
  /\ run.level = 0 /\ run.pc = "levelEnd"
  /\ run.fixedNodeMask = {0, 1}
  /\ Get(run.partition.nodeCommunity, 2) = Get(run.partition.nodeCommunity, 1)
  /\ Get(run.partition.nodeCommunity, 0) # Get(run.partition.nodeCommunity, 1)

\* the nodes reachable from the ids in S by at most k links, in either direction
RECURSIVE Reach(_, _, _)
Reach(graph, S, k) ==
  IF k = 0 THEN S
  ELSE Reach(graph,
             S \cup {graph.links[l].toId : l \in {x \in 1..Len(graph.links) : graph.links[x].fromId \in S}}
               \cup {graph.links[l].fromId : l \in {x \in 1..Len(graph.links) : graph.links[x].toId \in S}},
             k - 1)

SameComponent(graph, i, j) ==
  graph.nodeIds[j] \in Reach(graph, {graph.nodeIds[i]}, Len(graph.nodeIds))

Extended(membership) ==
  [i \in 1..Len(membership) |->
     IF membership[i] = Undefined THEN FarId + i ELSE membership[i]]

AnyMissing == \E i \in 1..Len(given) : given[i] = Undefined

\* C7: in non-strict mode evaluateQuality returns, for a membership that
\* lacks some nodes, the value it returns for that membership extended by a
\* fresh singleton community for each missing node.
C7_MissingAreSingletons ==
  outcome.evaluated /\ ~optionsInput.requireMembership =>
    SameValue(outcome.value,
              evaluateQuality(inputGraph, Extended(given), optionsInput).value)

\* C8: in strict mode evaluateQuality throws, and returns no value, exactly
\* when some node has no entry in membership; with every node present it
\* returns what the non-strict call returns.
C8_StrictModeThrows ==
  outcome.evaluated /\ optionsInput.requireMembership =>
    /\ AnyMissing => outcome.threw /\ outcome.value.nan
    /\ ~AnyMissing =>
         /\ ~outcome.threw
         /\ outcome.value =
              evaluateQuality(inputGraph, given,
                              [optionsInput EXCEPT !.requireMembership = FALSE]).value

\* a strict call on a membership without an entry for node 1 has thrown
C8_Witness ==
  /\ outcome.evaluated /\ optionsInput.requireMembership
  /\ given[2] = Undefined /\ given[1] # Undefined
  /\ outcome.threw

\* C9: with quality = 'cpm', the run and the run that differs only in cpmMode
\* stand at the same place with the same membership of every original node and
\* the same number of levels, at every step and so when they return.
C9_CpmModeReportingOnly ==
  optionsInput.quality = "cpm" =>
    /\ twin.pc = run.pc
    /\ twin.level = run.level
    /\ twin.levels = run.levels
    /\ twin.originalToCurrent = run.originalToCurrent

\* both runs have returned, nodes 0 and 1 were merged, node 0 has a size other
\* than 1 and the two quality() values differ
C9_Witness ==
  /\ optionsInput.quality = "cpm" /\ Done /\ twin.pc = "done"
  /\ inputGraph.nodeSize[1] > 1
  /\ Membership(run)[1] = Membership(run)[2]
  /\ ~quality(run, optionsInput).nan /\ ~quality(twin, TwinInput).nan
  /\ ~SameValue(quality(run, optionsInput), quality(twin, TwinInput))

\* C10: at every level a node is visited only in a sweep whose number is at
\* most maxLocalPasses, in the local-move loop and in the refinement loop.
C10_SweepsWithinMaxLocalPasses ==
  /\ run.pc = "localMove" /\ run.visited # {} => run.localPasses <= optionsInput.maxLocalPasses
  /\ run.pc = "refine" /\ run.visited # {} => run.passes <= optionsInput.maxLocalPasses

\* the list of layers is empty or two of its layers differ in their node ids
LayersMismatch ==
  \/ Len(inputGraph) = 0
  \/ \E l \in 2..Len(inputGraph) : NodeSet(inputGraph[l].graph) # NodeSet(inputGraph[1].graph)

\* C11: once detectClusters has been called with a list of layers that is
\* empty or whose layers do not share one node-id set, the call has thrown and
\* no clustering step was taken.
C11_MismatchedLayersRejected ==
  LayersMismatch /\ (outcome.threw \/ run # NoRun) => outcome.threw /\ run = NoRun

\* C12: a command line with an argument that parseArgs reports as an unknown
\* option ends with a non-zero exit code and writes no membership or quality
\* output, neither to standard output nor to the --out file.
C12_UnknownOptionFailsFast ==
  cli.pc = "exited" /\ cli.args.bad =>
    cli.exitCode # 0 /\ cli.stdout = NoOutput /\ cli.outFile = NoOutput

\* the members of community c in partition p
Members(p, c) == {i \in 0..(p.n - 1) : Get(p.nodeCommunity, i) = c}

\* the internal weight of community c as the invariant states it: every
\* unordered pair inside c once (undirected) or every directed edge inside c
\* (directed), and the self-loops of the members once
StatedInternalWeight(graph, p, c) ==
  LET inside(i) ==
        SumSeq([k \in 1..Len(graph.outEdges[i + 1]) |->
                  LET e == graph.outEdges[i + 1][k]
                  IN IF e.to \in Members(p, c) /\ e.to # i /\ (graph.directed \/ e.to > i)
                     THEN e.w ELSE 0])
  IN SumSeq([k \in 1..graph.n |->
               IF (k - 1) \in Members(p, c) THEN graph.selfLoop[k] + inside(k - 1) ELSE 0])

\* C13: after initializeAggregates and any sequence of accumulate-and-move
\* steps, internalEdgeWeight[c] of every community is the weight of the pairs
\* (edges, when directed) inside c counted once plus the members' self-loops
\* counted once.
C13_InternalWeightCountsOnce ==
  direct.pc = "direct" /\ ~direct.compacted =>
    \A c \in 0..(direct.partition.communityCount - 1) :
      Get(direct.partition.communityInternalEdgeWeight, c)
        = StatedInternalWeight(direct.graphAdapter, direct.partition, c)

\* C14: after initializeAggregates, after every moveNodeToCommunity(v, newC)
\* with 0 <= newC <= communityCount and after every compactCommunityIds, the
\* node counts add up to N, the total sizes to the sum of the node sizes, the
\* strengths to the total weight, and every aggregate of a community is the
\* sum of its members' values.
C14_AggregateTotals ==
  direct.pc = "direct" =>
    LET p == direct.partition
        g == direct.graphAdapter
        total(arr) == SumSeq([k \in 1..p.communityCount |-> Get(arr, k - 1)])
        over(arr, c) == SumSeq([k \in 1..g.n |-> IF (k - 1) \in Members(p, c) THEN arr[k] ELSE 0])
    IN /\ total(p.communityNodeCount) = g.n
       /\ total(p.communityTotalSize) = SumSeq(g.size)
       /\ IF g.directed
          THEN /\ total(p.communityTotalOutStrength) = g.totalWeight
               /\ total(p.communityTotalInStrength) = g.totalWeight
          ELSE total(p.communityTotalStrength) = g.totalWeight
       /\ \A c \in 0..(p.communityCount - 1) :
            /\ Get(p.communityNodeCount, c) = Cardinality(Members(p, c))
            /\ Get(p.communityTotalSize, c) = over(g.size, c)
            /\ IF g.directed
               THEN /\ Get(p.communityTotalOutStrength, c) = over(g.strengthOut, c)
                    /\ Get(p.communityTotalInStrength, c) = over(g.strengthIn, c)
               ELSE Get(p.communityTotalStrength, c) = over(g.strengthOut, c)

\* a move has appended a community slot and the ids were compacted afterwards
C14_Witness ==
  /\ direct.pc = "direct"
  /\ direct.grown
  /\ direct.compacted
  /\ direct.last.op = "compact"

\* gain, a number times scale, is the difference of two quality values
GainIsChange(gain, scale, before, after) ==
  /\ ~gain.nan
  /\ ~before.nan
  /\ ~after.nan
  /\ gain.val * before.den * after.den
       = scale * (after.num * before.den - before.num * after.den)

\* the last operation moved a node into another existing community, and the
\* partition was reached by moves into existing communities only
MovedBetweenCommunities ==
  /\ direct.pc = "direct"
  /\ direct.last.op = "move"
  /\ direct.last.from # direct.last.to
  /\ ~direct.grown
  /\ ~direct.compacted

\* C15: on an undirected graph the gain that deltaModularityUndirected and
\* diffModularity return for (v, c) after accumulateNeighbors(v) is the global
\* modularity after moveNodeToCommunity(v, c) minus the global modularity
\* before it.
C15_UndirectedGainIsQualityChange ==
  MovedBetweenCommunities /\ optionsInput.quality = "modularity" /\ ~optionsInput.directed =>
    LET m2 == direct.graphAdapter.totalWeight
    IN /\ GainIsChange(direct.last.delta, m2 * m2, direct.last.before, direct.last.after)
       /\ GainIsChange(direct.last.diff, m2 * m2, direct.last.before, direct.last.after)

\* C16: on a directed graph the gain that deltaModularityDirected and
\* diffModularityDirected return for (v, c) after accumulateNeighbors(v) is the
\* global directed modularity after moveNodeToCommunity(v, c) minus the global
\* directed modularity before it.
C16_DirectedGainIsQualityChange ==
  MovedBetweenCommunities /\ optionsInput.quality = "modularity" /\ optionsInput.directed =>
    LET m == direct.graphAdapter.totalWeight
    IN /\ GainIsChange(direct.last.delta, m * m, direct.last.before, direct.last.after)
       /\ GainIsChange(direct.last.diff, m * m, direct.last.before, direct.last.after)

\* C17: the gain that deltaCPM and diffCPM return for (v, c) after
\* accumulateNeighbors(v) is the global size-aware CPM quality after
\* moveNodeToCommunity(v, c) minus the global CPM quality before it, on
\* undirected and directed graphs, for every node size and resolution.
C17_CpmGainIsQualityChange ==
  MovedBetweenCommunities /\ optionsInput.quality = "cpm" =>
    /\ GainIsChange(direct.last.delta, ResolutionDen, direct.last.before, direct.last.after)
    /\ GainIsChange(direct.last.diff, ResolutionDen, direct.last.before, direct.last.after)

\* the partition whose nodes the loop at hand moves
Moving(r) == IF r.pc = "refine" THEN r.refined ELSE r.partition

\* the global quality of that partition on the graph of the level, by the
\* edge scan of evaluateQuality
LevelQuality(r, options) ==
  LET membership == Moving(r).nodeCommunity
      recs == [c \in CommunityIds(r.graphAdapter, membership) |->
                 CommunityRecord(r.graphAdapter, membership, c)]
  IN IF options.quality = "cpm" THEN evaluateCPM(recs, r.graphAdapter, options)
     ELSE evaluateModularity(recs, r.graphAdapter, options.directed)

\* a < b on two quality values
LessValue(a, b) == (~a.nan) /\ (~b.nan) /\ a.num * b.den < b.num * a.den

\* the step is a visit of the local-move loop or of the refinement loop that
\* moved the node
MoveMade ==
  /\ run.pc \in {"localMove", "refine"}
  /\ run'.pc = run.pc
  /\ run'.level = run.level
  /\ run'.visited # run.visited
  /\ run'.visited # {}
  /\ Moving(run').nodeCommunity # Moving(run).nodeCommunity

\* C18: every move made by the local-move loop or by the refinement loop
\* strictly increases the global quality of the level's partition.
C18_MovesIncreaseQuality ==
  [][MoveMade => LessValue(LevelQuality(run, optionsInput), LevelQuality(run, optionsInput)')]_vars

\* the refinement of the level is under way or has returned
Refining == Options.refine /\ run.pc \in {"refine", "levelEnd"}

\* C19: in every state of the refinement loop and in the refined partition it
\* returns, two nodes of one refined community belong to the same macro
\* community of the partition the refinement started from.
C19_RefinementSubdivides ==
  Refining =>
    \A i, j \in 0..(run.graphAdapter.n - 1) :
      Get(run.refined.nodeCommunity, i) = Get(run.refined.nodeCommunity, j)
        => Get(run.partition.nodeCommunity, i) = Get(run.partition.nodeCommunity, j)

\* the refinement has returned a community of two nodes next to a node of
\* another macro community
C19_Witness ==
  /\ Refining
  /\ run.pc = "levelEnd"
  /\ \E i, j, k \in 0..(run.graphAdapter.n - 1) :
       /\ i # j
       /\ Get(run.refined.nodeCommunity, i) = Get(run.refined.nodeCommunity, j)
       /\ Get(run.partition.nodeCommunity, k) # Get(run.partition.nodeCommunity, i)

\* the step ends a level and builds the coarse graph of the next one
Coarsened == run.pc = "levelEnd" /\ run'.pc = "localMove" /\ run'.level = run.level + 1

\* the sum of the sizes of the nodes of graph that p puts in community c
MemberSizes(graph, p, c) ==
  SumSeq([k \in 1..graph.n |-> IF (k - 1) \in Members(p, c) THEN graph.size[k] ELSE 0])

\* C20: the coarse graph built from the renumbered partition P of a level has
\* one node per community 0..Q(P)-1, and the size of coarse node c is
\* totalSize[c] of P, the sum of the sizes of the level's nodes in community c.
C20_CoarseNodesCarryCommunitySizes ==
  [][Coarsened =>
       LET P == effectivePartition(run, Options)
       IN /\ run'.graphAdapter.n = P.communityCount
          /\ \A c \in 0..(P.communityCount - 1) :
               /\ Get(run'.graphAdapter.size, c) = Get(P.communityTotalSize, c)
               /\ Get(run'.graphAdapter.size, c) = MemberSizes(run.graphAdapter, P, c)]_vars

\* the weight of the out-edges of adapter g from the nodes of S to the nodes of T
WeightBetween(g, S, T) ==
  SumSeq([k \in 1..g.n |->
            IF (k - 1) \in S
            THEN SumSeq([x \in 1..Len(g.outEdges[k]) |->
                           IF g.outEdges[k][x].to \in T THEN g.outEdges[k][x].w ELSE 0])
            ELSE 0])

\* C21: the adapter of a level after the first stores between coarse nodes c
\* and d (and as the self-loop of c) the sum of the weights of the previous
\* level's edges between the members of c and of d (inside c); the total
\* weight and the strength of every community are those of the previous
\* level, whatever linkWeight function the options supply.
C21_CoarseWeightsAreSums ==
  [][Coarsened =>
       LET P == effectivePartition(run, Options)
           g == run.graphAdapter
           h == run'.graphAdapter
           over(arr, c) == SumSeq([k \in 1..g.n |-> IF (k - 1) \in Members(P, c) THEN arr[k] ELSE 0])
       IN /\ h.totalWeight = g.totalWeight
          /\ \A c \in 0..(P.communityCount - 1) :
               /\ Get(h.selfLoop, c) = WeightBetween(g, Members(P, c), Members(P, c))
               /\ Get(h.strengthOut, c) = over(g.strengthOut, c)
               /\ Get(h.strengthIn, c) = over(g.strengthIn, c)
               /\ \A d \in 0..(P.communityCount - 1) :
                    WeightBetween(h, {c}, {d}) = WeightBetween(g, Members(P, c), Members(P, d))]_vars

\* C22: the driver builds a next level only from a partition with strictly
\* fewer communities than the level has nodes, with or without refinement:
\* the node count strictly decreases from each level to the next, and the
\* number of levels pushed is at most min(maxLevels, N0).
C22_LevelsShrink ==
  [][/\ Coarsened =>
          /\ effectivePartition(run, Options).communityCount < run.graphAdapter.n
          /\ run'.graphAdapter.n < run.graphAdapter.n
     /\ run'.pc # "none" =>
          /\ run'.levels <= Options.maxLevels
          /\ run'.levels <= Len(inputGraph.nodeIds)]_vars

\* C23: right after compactCommunityIds, in any mode, nodeCount, totalSize,
\* the strengths and internalEdgeWeight of every community are the values
\* initializeAggregates computes from scratch for the same assignment on the
\* same graph, undirected or directed, with or without self-loops.
C23_CompactionMatchesInitialize ==
  direct.pc = "direct" /\ direct.last.op = "compact" =>
    LET p == direct.partition
        q == initializeAggregates(p, direct.graphAdapter)
    IN \A c \in 0..(p.communityCount - 1) :
         /\ Get(p.communityNodeCount, c) = Get(q.communityNodeCount, c)
         /\ Get(p.communityTotalSize, c) = Get(q.communityTotalSize, c)
         /\ Get(p.communityTotalStrength, c) = Get(q.communityTotalStrength, c)
         /\ Get(p.communityTotalOutStrength, c) = Get(q.communityTotalOutStrength, c)
         /\ Get(p.communityTotalInStrength, c) = Get(q.communityTotalInStrength, c)
         /\ Get(p.communityInternalEdgeWeight, c) = Get(q.communityInternalEdgeWeight, c)

\* the step is a call of compactCommunityIds
Compacting ==
  /\ direct.pc = "direct"
  /\ direct'.steps = direct.steps + 1
  /\ direct'.last.op = "compact"

\* C24: compactCommunityIds, in every mode, leaves communityCount equal to
\* the number of communities that had a node, makes the ids in use exactly
\* 0..communityCount-1, and puts two nodes under one id exactly when they
\* were under one id before.
C24_CompactionPreservesPartition ==
  [][Compacting =>
       LET p == direct.partition
           q == direct'.partition
           nodes == 0..(p.n - 1)
       IN /\ q.communityCount = Cardinality({Get(p.nodeCommunity, i) : i \in nodes})
          /\ {Get(q.nodeCommunity, i) : i \in nodes} = 0..(q.communityCount - 1)
          /\ \A i, j \in nodes :
               Get(q.nodeCommunity, i) = Get(q.nodeCommunity, j)
                 <=> Get(p.nodeCommunity, i) = Get(p.nodeCommunity, j)]_vars

\* the ids were compacted after a move had emptied a community: two
\* communities are left, one of them with two nodes
C24_Witness ==
  /\ direct.pc = "direct"
  /\ direct.last.op = "compact"
  /\ direct.partition.communityCount = 2
  /\ direct.partition.n = 3

\* the input links between a and b, whatever their direction
LinksOfPair(graph, a, b) ==
  {k \in 1..Len(graph.links) :
     {idToIndex(graph, graph.links[k].fromId), idToIndex(graph, graph.links[k].toId)} = {a, b}}

\* the sum of their weights
PairSum(graph, a, b) ==
  SumSeq([k \in 1..Len(graph.links) |->
            IF k \in LinksOfPair(graph, a, b) THEN graph.links[k].weight ELSE 0])

\* the number of directions present among them
PairDirections(graph, a, b) ==
  Cardinality({idToIndex(graph, graph.links[k].fromId) : k \in LinksOfPair(graph, a, b)})

\* the entries a -> b of out[a]
OutEntries(g, a, b) == {x \in 1..Len(g.outEdges[a + 1]) : g.outEdges[a + 1][x].to = b}

\* out[a] holds exactly one entry a -> b, out[b] exactly one entry b -> a,
\* both with the pair's summed weight divided by its number of directions
PairStoredOnce(graph, g, a, b) ==
  /\ Cardinality(OutEntries(g, a, b)) = 1
  /\ Cardinality(OutEntries(g, b, a)) = 1
  /\ \A x \in OutEntries(g, a, b) : \A y \in OutEntries(g, b, a) :
       /\ g.outEdges[a + 1][x].w = g.outEdges[b + 1][y].w
       /\ g.outEdges[a + 1][x].w * PairDirections(graph, a, b) = PairSum(graph, a, b)

\* graph with the reverse of every link added, same weight
Reciprocated(graph) ==
  [graph EXCEPT !.links =
     @ \o [k \in 1..Len(graph.links) |->
             Link(graph.links[k].toId, graph.links[k].fromId, graph.links[k].weight)]]

\* every pair of graph has its links in one direction only
OneDirectionPerPair(graph) ==
  \A a, b \in 0..(Len(graph.nodeIds) - 1) :
    LinksOfPair(graph, a, b) # {} => PairDirections(graph, a, b) = 1

\* the level-0 adapter of an undirected run
BaseAdapterBuilt == run.pc # "none" /\ run.level = 0 /\ ~Options.directed

\* one direction of weight w per pair and both directions of weight w give
\* the same strengths and the same total weight
SameWithReciprocals ==
  OneDirectionPerPair(inputGraph) =>
    LET both == makeGraphAdapter(Reciprocated(inputGraph), FALSE)
    IN /\ both.strengthOut = run.graphAdapter.strengthOut
       /\ both.strengthIn = run.graphAdapter.strengthIn
       /\ both.totalWeight = run.graphAdapter.totalWeight

\* C25 as stated: in undirected mode every unordered pair {a, b}, a # b, with
\* at least one input link is stored exactly once as a -> b in out[a] and
\* once as b -> a in out[b], both with the sum of the pair's link weights
\* divided by the number of directions present; one direction of weight w
\* per pair and both directions of weight w give the same strengths and M.
C25_EveryLinkedPairIsStored ==
  BaseAdapterBuilt =>
    /\ \A a, b \in 0..(run.graphAdapter.n - 1) :
         a # b /\ LinksOfPair(inputGraph, a, b) # {}
           => PairStoredOnce(inputGraph, run.graphAdapter, a, b)
    /\ SameWithReciprocals

\* C25 amended: the pairs whose link weights sum to a non-zero value are
\* stored that way; a pair whose weights sum to zero has no entry at all, as
\* has a pair without links.
C25_NonZeroPairsAreStored ==
  BaseAdapterBuilt =>
    /\ \A a, b \in 0..(run.graphAdapter.n - 1) :
         a # b =>
           IF LinksOfPair(inputGraph, a, b) # {} /\ PairSum(inputGraph, a, b) # 0
           THEN PairStoredOnce(inputGraph, run.graphAdapter, a, b)
           ELSE OutEntries(run.graphAdapter, a, b) = {}
    /\ SameWithReciprocals

\* the pair {0, 1} was given in both directions with different weights and
\* the pair {1, 2} not at all
C25_Witness ==
  /\ BaseAdapterBuilt
  /\ PairDirections(inputGraph, 0, 1) = 2
  /\ inputGraph.links[1].weight # inputGraph.links[2].weight
  /\ PairSum(inputGraph, 0, 1) > 0

\* community c can take node v under maxCommunitySize
SizeFits(p, graph, v, c, opts) ==
  ~(opts.maxCommunitySize < Infinity
    /\ getCommunityTotalSize(p, c) + Get(graph.size, v) > opts.maxCommunitySize)

\* the candidates of v for which the local-move loop computes a gain, in the
\* order it computes them; p is the partition after accumulateNeighbors(v)
LocalAdmissible(p, graph, v, opts, draws) ==
  SelectSeq(Candidates(p, opts, draws),
            LAMBDA c : /\ opts.candidateStrategy = "neighbors" \/ c # Get(p.nodeCommunity, v)
                       /\ SizeFits(p, graph, v, c, opts))
  \o (IF opts.allowNewCommunity THEN <<p.communityCount>> ELSE << >>)

\* the same for the refinement loop
RefineAdmissible(p, graph, v, macro, opts) ==
  SelectSeq([k \in 1..p.candidateCommunityCount |-> getCandidateCommunityAt(p, k - 1)],
            LAMBDA c : Get(macro, c) = Get(macro, v) /\ SizeFits(p, graph, v, c, opts))

\* the first position of A whose gain is the largest gain of A (A not empty)
FirstBest(p, graph, v, A, opts) ==
  CHOOSE k \in 1..Len(A) :
    \A j \in 1..Len(A) :
      /\ computeQualityGain(p, graph, v, A[j], opts) <= computeQualityGain(p, graph, v, A[k], opts)
      /\ j < k => computeQualityGain(p, graph, v, A[j], opts)
                     < computeQualityGain(p, graph, v, A[k], opts)

\* res = [partition, moved] is what the stated rule asks for: a move to the
\* first candidate of the largest gain when that gain exceeds GAIN_EPSILON
\* (and the candidate is not v's own community), no move otherwise
FollowsMoveRule(p, graph, v, A, opts, res) ==
  LET own == Get(p.nodeCommunity, v)
      k == FirstBest(p, graph, v, A, opts)
  IN IF A # << >> /\ computeQualityGain(p, graph, v, A[k], opts) > GAIN_EPSILON /\ A[k] # own
     THEN res.moved /\ Get(res.partition.nodeCommunity, v) = ToInt32(A[k])
     ELSE (~res.moved) /\ res.partition.nodeCommunity = p.nodeCommunity

\* the nodes the sweep under way has still to handle, fixed nodes left out
ToHandle(r) ==
  {v \in Unvisited(r) : ~(r.level = 0 /\ v \in r.fixedNodeMask)}

\* C26: whichever node the local-move loop or the refinement loop handles
\* next, it is moved only when the largest gain among its admissible
\* candidates exceeds 1e-12, and then to the first candidate in enumeration
\* order with that gain; with a largest gain of at most 1e-12 it stays.
C26_FirstBestCandidateWins ==
  /\ run.pc = "localMove" =>
       \A v \in ToHandle(run) : \A draws \in VisitDraws(run, Options, v) :
         LET p == accumulateNeighborCommunityEdgeWeights(run.partition, run.graphAdapter, v)
         IN FollowsMoveRule(p, run.graphAdapter, v,
                            LocalAdmissible(p, run.graphAdapter, v, Options, draws), Options,
                            LocalMoveNode(run.partition, run.graphAdapter, v, Options,
                                          run.fixedNodeMask, run.level, draws))
  /\ run.pc = "refine" =>
       \A v \in ToHandle(run) :
         LET p == accumulateNeighborCommunityEdgeWeights(run.refined, run.graphAdapter, v)
         IN FollowsMoveRule(p, run.graphAdapter, v,
                            RefineAdmissible(p, run.graphAdapter, v,
                                             run.partition.nodeCommunity, Options), Options,
                            RefineNode(run.refined, run.graphAdapter, v,
                                       run.partition.nodeCommunity, Options,
                                       IF run.level = 0 THEN run.fixedNodeMask ELSE {}))

\* the first node handled at level 0 had two candidates of the same largest
\* gain and sits in the first of them
C26_Witness ==
  /\ run.pc = "localMove" /\ run.level = 0 /\ run.localPasses = 1
  /\ Options.candidateStrategy = "neighbors"
  /\ \E v \in 0..(run.graphAdapter.n - 1) :
       /\ run.visited = {v}
       /\ LET g == run.graphAdapter
              p == accumulateNeighborCommunityEdgeWeights(
                     initializeAggregates(makePartition(g), g), g, v)
              A == LocalAdmissible(p, g, v, Options, << >>)
          IN /\ A # << >>
             /\ \E k \in 1..Len(A) :
                  /\ k > FirstBest(p, g, v, A, Options)
                  /\ A[k] # A[FirstBest(p, g, v, A, Options)]
                  /\ computeQualityGain(p, g, v, A[k], Options)
                       = computeQualityGain(p, g, v, A[FirstBest(p, g, v, A, Options)], Options)
             /\ computeQualityGain(p, g, v, A[FirstBest(p, g, v, A, Options)], Options) > GAIN_EPSILON
             /\ Get(run.partition.nodeCommunity, v) = A[FirstBest(p, g, v, A, Options)]
             /\ Get(run.partition.nodeCommunity, v) # v

\* the candidate list of p holds no id twice
NoDuplicateCandidates(p) ==
  \A i, j \in 0..(p.candidateCommunityCount - 1) :
    i # j => getCandidateCommunityAt(p, i) # getCandidateCommunityAt(p, j)

\* C27: within a level communityCount never exceeds the level's node count
\* N, whatever the options (allowNewCommunity included): every community id
\* of a node lies inside the N-sized scratch buffers and the candidate list
\* built by accumulateNeighbors holds no id twice.
C27_CommunityCountWithinN ==
  run.pc \in {"localMove", "refine", "levelEnd"} =>
    \A p \in {run.partition} \cup (IF run.refined = NoPartition THEN {} ELSE {run.refined}) :
      /\ p.communityCount <= run.graphAdapter.n
      /\ \A i \in 0..(p.n - 1) : Get(p.nodeCommunity, i) < Len(p.isCandidateCommunity)
      /\ NoDuplicateCandidates(p)

\* the communities of partition p that have a member
NonEmpty(p) == {Get(p.nodeCommunity, i) : i \in 0..(p.n - 1)}

\* C28: with allowNewCommunity = false, under every candidateStrategy, a
\* move of the local-move loop puts the node into a community that has a
\* member at the time of the move, so the number of non-empty communities
\* of the level does not increase.
C28_NoMoveIntoEmptyCommunity ==
  [][MoveMade /\ run.pc = "localMove" /\ ~Options.allowNewCommunity =>
       /\ \A v \in 0..(run.graphAdapter.n - 1) :
            Get(run'.partition.nodeCommunity, v) # Get(run.partition.nodeCommunity, v)
              => Get(run'.partition.nodeCommunity, v) \in NonEmpty(run.partition)
       /\ Cardinality(NonEmpty(run'.partition)) <= Cardinality(NonEmpty(run.partition))]_vars

\* C29: the six aggregate arrays that the partition object exposes hold, for
\* every current community id, the values of the partition's own
\* aggregates, also after compactCommunityIds and after a move that has
\* appended a slot.
C29_ExposedAggregatesAreCurrent ==
  direct.pc = "direct" =>
    LET p == direct.partition
    IN \A c \in 0..(p.communityCount - 1) :
         /\ Get(p.exposed.communityTotalSize, c) = Get(p.communityTotalSize, c)
         /\ Get(p.exposed.communityNodeCount, c) = Get(p.communityNodeCount, c)
         /\ Get(p.exposed.communityInternalEdgeWeight, c) = Get(p.communityInternalEdgeWeight, c)
         /\ Get(p.exposed.communityTotalStrength, c) = Get(p.communityTotalStrength, c)
         /\ Get(p.exposed.communityTotalOutStrength, c) = Get(p.communityTotalOutStrength, c)
         /\ Get(p.exposed.communityTotalInStrength, c) = Get(p.communityTotalInStrength, c)

\* the weight of the out-edges (in-edges) of node v of adapter g that lead to
\* (come from) the nodes of S
OutWeightTo(g, v, S) ==
  SumSeq([x \in 1..Len(g.outEdges[v + 1]) |->
            IF g.outEdges[v + 1][x].to \in S THEN g.outEdges[v + 1][x].w ELSE 0])

InWeightFrom(g, v, S) ==
  SumSeq([x \in 1..Len(g.inEdges[v + 1]) |->
            IF g.inEdges[v + 1][x].from \in S THEN g.inEdges[v + 1][x].w ELSE 0])

\* C30: a move of node v by the local-move loop or the refinement loop comes
\* right after accumulateNeighbors(v): the scratch accumulators at the move
\* hold, for every community of the partition the move is applied to, the
\* weight of v's edges to (and, directed, from) the members of that
\* community.
C30_MoveUsesAccumulatorsOfMovedNode ==
  [][MoveMade =>
       LET p == Moving(run)
           q == Moving(run')
           g == run.graphAdapter
       IN \A v \in 0..(g.n - 1) :
            Get(q.nodeCommunity, v) # Get(p.nodeCommunity, v) =>
              \A c \in NonEmpty(p) :
                IF g.directed
                THEN /\ getOutEdgeWeightToCommunity(q, c) = OutWeightTo(g, v, Members(p, c))
                     /\ getInEdgeWeightFromCommunity(q, c) = InWeightFrom(g, v, Members(p, c))
                ELSE getNeighborEdgeWeightToCommunity(q, c) = OutWeightTo(g, v, Members(p, c))]_vars

====
